---- MODULE Spec2Model ----
(***************************************************************************)
(* Radial layout engine (lib/layout: applyRadialLayout) and the store's    *)
(* incremental child placement (store/index.ts: addChildNode) of the mind  *)
(* map application.                                                        *)
(*                                                                         *)
(* Numbers.  The program computes in IEEE doubles.  Here every length is   *)
(* an integer number of 1/U pixels and every angle, ratio or weight an     *)
(* integer number of 1/Q; products and quotients are rounded to the        *)
(* nearest unit.  Math.sin, Math.asin, Math.log2, Math.sqrt and Math.hypot *)
(* are computed (series, bisection, digit recurrence), not looked up.      *)
(***************************************************************************)
EXTENDS Integers, Sequences, FiniteSets, TLC

\* ------------------------------------------------------------------------
\* Fixed-point resolution
\* ------------------------------------------------------------------------
U == 10 * 10            \* length units per pixel
Q == 10 * 10000         \* units per radian, and per 1.0 of a ratio
PI == (314159265 + 500) \div 1000          \* Math.PI in 1/Q
TWO_PI == 2 * PI
HALF_PI == (PI + 1) \div 2

Abs(x) == IF x < 0 THEN -x ELSE x
Sign(x) == IF x < 0 THEN -1 ELSE IF x > 0 THEN 1 ELSE 0
Min2(a, b) == IF a < b THEN a ELSE b
Max2(a, b) == IF a > b THEN a ELSE b

\* round(a * b / c) for c > 0, without leaving 32 bits: b is split in
\* thousands so that every intermediate product stays small
\* (a up to 10^6, c up to 10^6).
MulDivPos(a, b, c) ==
  LET bh == b \div 1000
      bl == b % 1000
      P  == a * bh
      q  == P \div c
      r  == P % c
  IN  q * 1000 + (r * 1000 + a * bl + c \div 2) \div c

MulDiv(a, b, c) ==
  IF a = 0 \/ b = 0 THEN 0
  ELSE Sign(a) * Sign(b) * MulDivPos(Abs(a), Abs(b), c)

\* round(a / b), b > 0
RDiv(a, b) == Sign(a) * ((Abs(a) + b \div 2) \div b)

\* a * a <= x * x + y * y, compared in two words of base 10^6
SqHi(x) == LET xh == x \div 1000  xl == x % 1000
           IN  xh * xh + (2 * xh * xl * 1000 + xl * xl) \div 1000000
SqLo(x) == LET xh == x \div 1000  xl == x % 1000
           IN  (2 * xh * xl * 1000 + xl * xl) % 1000000
SqLeSum(a, x, y) ==
  LET lo == SqLo(x) + SqLo(y)
      hi == SqHi(x) + SqHi(y) + lo \div 1000000
      l  == lo % 1000000
  IN  SqHi(a) < hi \/ (SqHi(a) = hi /\ SqLo(a) <= l)

\* one bisection step on range = <<lo, hi>>: the half that holds the largest
\* a with a*a <= x*x + y*y
HypotHalf(range, mid, x, y) ==
  IF range[1] >= range[2] THEN range
  ELSE IF SqLeSum(mid, x, y) THEN <<mid, range[2]>> ELSE <<range[1], mid - 1>>

HypotNarrow(range, x, y) == HypotHalf(range, (range[1] + range[2] + 1) \div 2, x, y)

RECURSIVE HypotBisect(_, _, _)
HypotBisect(range, x, y) ==
  \* largest a in range[1]..range[2] with a*a <= x*x + y*y, four steps a call
  IF range[1] >= range[2] THEN range[1]
  ELSE HypotBisect(HypotNarrow(HypotNarrow(HypotNarrow(HypotNarrow(
                     range, x, y), x, y), x, y), x, y), x, y)

\* Math.hypot
Hypot(dx, dy) ==
  LET x == Abs(dx)
      y == Abs(dy)
  IN  IF y = 0 THEN x
      ELSE IF x = 0 THEN y
      ELSE HypotBisect(<<Max2(x, y), x + y>>, x, y)

RECURSIVE SqrtBisect(_, _, _)
SqrtBisect(lo, hi, n) ==
  \* largest a in lo..hi with a*a <= n*Q*Q
  IF lo >= hi THEN lo
  ELSE LET mid == (lo + hi + 1) \div 2
           nhi == n * (Q \div 1000) * (Q \div 1000)
       IN  IF SqHi(mid) < nhi \/ (SqHi(mid) = nhi /\ SqLo(mid) = 0)
           THEN SqrtBisect(mid, hi, n)
           ELSE SqrtBisect(lo, mid - 1, n)

\* Math.sqrt of a whole number n, in 1/Q
SqrtQ(n) == SqrtBisect(0, Q * Min2(n, 9), n)

\* Math.sin of an angle in 1/Q, result in 1/Q: odd Taylor polynomial to
\* x^11 on [-pi/2, pi/2] after reduction.
SinStep(x2, t, d) == IF t = 0 THEN Q ELSE Q - RDiv(MulDiv(x2, t, Q), d)

SinPoly(x, x2) ==
  IF x2 = 0 THEN x
  ELSE MulDiv(SinStep(x2, SinStep(x2, SinStep(x2, SinStep(x2, SinStep(x2,
                Q, 110), 72), 42), 20), 6), x, Q)

SinReduced(x) == IF x = 0 THEN 0 ELSE SinPoly(x, MulDiv(x, x, Q))

Sin(a) ==
  LET m == a % TWO_PI                       \* 0 .. 2pi
      s == IF m > PI THEN m - TWO_PI ELSE m  \* -pi .. pi
      r == IF s > HALF_PI THEN PI - s
           ELSE IF s < -HALF_PI THEN -PI - s
           ELSE s
  IN  SinReduced(r)

\* Math.cos
Cos(a) == Sin(a + HALF_PI)

\* one bisection step on range = <<lo, hi>>: the half that holds the largest
\* angle whose sine does not exceed r
AsinHalf(range, mid, r) ==
  IF range[1] >= range[2] THEN range
  ELSE IF Sin(mid) <= r THEN <<mid, range[2]>> ELSE <<range[1], mid - 1>>

AsinNarrow(range, r) == AsinHalf(range, (range[1] + range[2] + 1) \div 2, r)

RECURSIVE AsinBisect(_, _)
AsinBisect(range, r) ==
  \* largest angle in range[1]..range[2] whose sine does not exceed r, four
  \* steps a call
  IF range[1] >= range[2] THEN range[1]
  ELSE AsinBisect(AsinNarrow(AsinNarrow(AsinNarrow(AsinNarrow(range, r), r), r), r), r)

\* Math.asin on [0, 1]
Asin(r) == IF r >= Q THEN HALF_PI ELSE IF r <= 0 THEN 0 ELSE AsinBisect(<<0, HALF_PI>>, r)

\* one binary digit of log2(v), 1 <= v < 2: <<v squared and halved if it
\* reached 2, the digits so far>>
Log2Digit(sq, sum, bit) ==
  IF sq >= 2 * Q THEN <<sq \div 2, sum + bit>> ELSE <<sq, sum>>

RECURSIVE Log2Frac(_, _, _)
Log2Frac(vs, bit, n) ==
  \* n binary digits of log2(v) by repeated squaring, vs = <<v, digits so far>>;
  \* the digits after v = 1 are all zero
  IF n = 0 \/ vs[1] = Q THEN vs[2]
  ELSE Log2Frac(Log2Digit(MulDiv(vs[1], vs[1], Q), vs[2], bit), bit \div 2, n - 1)

RECURSIVE Log2Q(_)
\* Math.log2 of v >= 1 (v and the result in 1/Q)
Log2Q(v) == IF v >= 2 * Q THEN Q + Log2Q(v \div 2)
            ELSE Log2Frac(<<v, 0>>, Q \div 2, 16)

\* ------------------------------------------------------------------------
\* Bounds of the model
\* ------------------------------------------------------------------------
MaxNodes == 4                 \* nodes in a layout input
StackLimit == MaxNodes + 2    \* call depth at which the engine's stack overflows

\* ------------------------------------------------------------------------
\* Data: MindNode, MindEdge (types/index.ts)
\* ------------------------------------------------------------------------
NoSize == -1          \* node.measured?.width is undefined
Undefined == "undefined"
Fault == -1           \* RangeError: maximum call stack size exceeded

NodeTypes == {"root", "domain", "goal", "feature", "task"}
EdgeTypes == {"hierarchy", "blocks", "none"}    \* "none": edge.data is absent

Px(n) == n * U

MkNode(id, type, labelLen, mw, mh, x, y) ==
  [id |-> id, type |-> type, labelLen |-> labelLen,
   measuredW |-> mw, measuredH |-> mh, position |-> [x |-> x, y |-> y]]

MkEdge(source, target, edgeType) ==
  [id |-> <<"e", source, target, edgeType>>, source |-> source,
   target |-> target, edgeType |-> edgeType]

Range(f) == {f[i] : i \in DOMAIN f}

RECURSIVE SumSeq(_)
SumSeq(s) == IF s = <<>> THEN 0 ELSE Head(s) + SumSeq(Tail(s))

\* ------------------------------------------------------------------------
\* lib/layout constants
\* ------------------------------------------------------------------------
NODE_DIMS(type) ==
  CASE type = "root"    -> [w |-> Px(160), h |-> Px(56)]
    [] type = "domain"  -> [w |-> Px(170), h |-> Px(50)]
    [] type = "feature" -> [w |-> Px(180), h |-> Px(70)]
    [] OTHER            -> [w |-> Px(180), h |-> Px(70)]

NODE_PAD == 18
SOFT_WIDTH_CAP == 220
SOFT_WIDTH_FALLOFF == 52          \* 0.52, in hundredths
MAX_LAYOUT_WIDTH == 340
COLLISION_PAD_X == 14
COLLISION_PAD_Y == 18
COLLISION_ITERS == 72
FINAL_ITERS == 24
SPRING_BACK == 45                 \* 0.045, in thousandths
MAX_RADIAL_DRIFT == 120
MIN_RADIAL_DRIFT == 52
TARGET_RADIUS_BASE == 260
TARGET_RADIUS_PER_SQRT_NODE == 104
TARGET_RADIUS_PER_EXTRA_ROOT_BRANCH == 18
INNER_CORE_RADIUS == 52
INNER_CORE_DEPTH_STEP == 20

CHILD_OUTWARD_GAP(type) ==
  CASE type = "root"    -> Px(0)
    [] type = "domain"  -> Px(92)
    [] type = "feature" -> Px(74)
    [] OTHER            -> Px(64)

BASE_RING_GAP(type) ==
  CASE type = "root"    -> Px(0)
    [] type = "domain"  -> Px(150)
    [] type = "feature" -> Px(102)
    [] type = "task"    -> Px(84)
    [] OTHER            -> Px(250)

\* ------------------------------------------------------------------------
\* lib/layout helpers
\* ------------------------------------------------------------------------
IsHierarchy(e) == e.edgeType = "hierarchy"

\* Map source -> targets, in edge order, of the hierarchy edges
\* an adjacency built from every edge, whatever its type
buildAdjacencyAllEdges(edges) ==
  LET sources == {edges[k].source : k \in DOMAIN edges}
  IN  [s \in sources |->
         LET out == SelectSeq(edges, LAMBDA e : e.source = s)
         IN  [i \in DOMAIN out |-> out[i].target]]

buildAdjacency(edges) ==
  LET h == SelectSeq(edges, IsHierarchy)
      sources == {h[i].source : i \in DOMAIN h}
      kidsOf(s) == LET m == SelectSeq(h, LAMBDA e : e.source = s)
                   IN  [i \in DOMAIN m |-> m[i].target]
  IN  [s \in sources |-> kidsOf(s)]

\* adj.get(id) ?? []
AdjGet(adj, id) == IF id \in DOMAIN adj THEN adj[id] ELSE <<>>

\* findRoot that falls back to the first node when every node has a parent
findRootFirstNode(nodes, adj) ==
  LET children == UNION {Range(adj[s]) : s \in DOMAIN adj}
      free == {i \in DOMAIN nodes : nodes[i].id \notin children}
  IN  IF nodes = <<>> THEN Undefined
      ELSE IF free = {} THEN nodes[1].id
      ELSE nodes[CHOOSE i \in free : \A j \in free : i <= j].id

\* findRoot that gives up when the parentless node is not unique
findRootUnique(nodes, adj) ==
  LET children == UNION {Range(adj[s]) : s \in DOMAIN adj}
      free == {i \in DOMAIN nodes : nodes[i].id \notin children}
  IN  IF Cardinality(free) # 1 THEN Undefined
      ELSE nodes[CHOOSE i \in free : TRUE].id

\* first node, in list order, that is the target of no hierarchy edge
findRoot(nodes, adj) ==
  LET children == UNION {Range(adj[s]) : s \in DOMAIN adj}
      free == {i \in DOMAIN nodes : nodes[i].id \notin children}
  IN  IF free = {} THEN Undefined
      ELSE nodes[CHOOSE i \in free : \A j \in free : i <= j].id

\* Map target -> source; a later hierarchy edge overwrites an earlier one
buildParentMap(edges) ==
  LET h == SelectSeq(edges, IsHierarchy)
      targets == {h[i].target : i \in DOMAIN h}
      lastIdx(t) == CHOOSE i \in DOMAIN h :
                      /\ h[i].target = t
                      /\ \A j \in DOMAIN h : h[j].target = t => j <= i
  IN  [t \in targets |-> h[lastIdx(t)].source]

RECURSIVE DepthVisit(_, _, _, _)
DepthVisit(kids, depth, queue, depthById) ==
  \* the inner loop over one node's children
  IF kids = <<>> THEN [queue |-> queue, depthById |-> depthById]
  ELSE LET c == Head(kids)
       IN  IF c \in DOMAIN depthById
           THEN DepthVisit(Tail(kids), depth, queue, depthById)
           ELSE DepthVisit(Tail(kids), depth, Append(queue, c),
                           [x \in DOMAIN depthById \cup {c} |->
                              IF x = c THEN depth + 1 ELSE depthById[x]])

RECURSIVE DepthLoop(_, _, _)
DepthLoop(queue, depthById, adj) ==
  IF queue = <<>> THEN depthById
  ELSE LET id == Head(queue)
           r  == DepthVisit(AdjGet(adj, id), depthById[id], Tail(queue), depthById)
       IN  DepthLoop(r.queue, r.depthById, adj)

buildDepthMap(rootId, adj) ==
  DepthLoop(<<rootId>>, [x \in {rootId} |-> 0], adj)

charWidth(type) ==
  IF type = "root" THEN 72 ELSE IF type = "domain" THEN 68 ELSE 62   \* tenths

\* label.trim() || "Untitled"
labelLength(node) == IF node.labelLen = 0 THEN 8 ELSE node.labelLen

estWidth(node, cap) ==
  Min2(NODE_DIMS(node.type).w
         + (Max2(0, labelLength(node) - 14) * charWidth(node.type) * U) \div 10,
       Px(cap))

\* the softened, capped size the radial placer works with
nodeDims(node) ==
  LET measuredOrEstimated ==
        IF node.measuredW # NoSize THEN node.measuredW ELSE estWidth(node, 420)
      softenedWidth ==
        IF measuredOrEstimated <= Px(SOFT_WIDTH_CAP) THEN measuredOrEstimated
        ELSE Px(SOFT_WIDTH_CAP)
             + MulDiv(measuredOrEstimated - Px(SOFT_WIDTH_CAP), SOFT_WIDTH_FALLOFF, 100)
  IN  [w |-> Min2(softenedWidth, Px(MAX_LAYOUT_WIDTH)),
       h |-> IF node.measuredH # NoSize THEN node.measuredH
             ELSE NODE_DIMS(node.type).h]

\* the size the collision relaxer and the result use
visualNodeDims(node) ==
  [w |-> IF node.measuredW # NoSize THEN node.measuredW ELSE estWidth(node, 620),
   h |-> IF node.measuredH # NoSize THEN node.measuredH
         ELSE NODE_DIMS(node.type).h]

\* new Map(nodes.map(n => [n.id, n])): the last node of an id wins
NodeIds(nodes) == {nodes[i].id : i \in DOMAIN nodes}
NodeMap(nodes) ==
  [id \in NodeIds(nodes) |->
     nodes[CHOOSE i \in DOMAIN nodes :
             nodes[i].id = id /\ \A j \in DOMAIN nodes : nodes[j].id = id => j <= i]]

RECURSIVE demandFor(_, _, _, _)
RECURSIVE demandSum(_, _, _, _)
\* demandFor of buildSubtreeDemand.  The memo is filled only when a call
\* returns, so it never cuts a cycle; it is left out and the call depth is
\* counted instead.
demandFor(id, ctx, adj, depth) ==
  IF depth > StackLimit THEN Fault
  ELSE IF id \notin DOMAIN ctx.layoutDims THEN 0
  ELSE LET selfDemand == ctx.layoutDims[id].w + Px(NODE_PAD)
           kids == AdjGet(adj, id)
       IN  IF kids = <<>> THEN selfDemand
           ELSE LET childDemand == demandSum(kids, ctx, adj, depth + 1)
                IN  IF childDemand = Fault THEN Fault
                    ELSE Max2(selfDemand, childDemand)

\* kids.reduce that stops after the first child
demandFirstKid(kids, ctx, adj, depth) ==
  IF kids = <<>> THEN 0 ELSE demandFor(Head(kids), ctx, adj, depth)

demandSum(kids, ctx, adj, depth) ==
  IF kids = <<>> THEN 0
  ELSE LET d == demandFor(Head(kids), ctx, adj, depth)
       IN  IF d = Fault THEN Fault
           ELSE LET rest == demandSum(Tail(kids), ctx, adj, depth)
                IN  IF rest = Fault THEN Fault ELSE d + rest

\* the memo returned by buildSubtreeDemand; an entry is Fault when its call
\* threw
buildSubtreeDemand(ctx, adj) ==
  [id \in DOMAIN ctx.layoutDims |-> demandFor(id, ctx, adj, 1)]

demandFaults(demand) == \E id \in DOMAIN demand : demand[id] = Fault

\* Calculate minimum ring radius so children don't overlap at a given sweep
minRadiusForChildren(childIds, layoutDims, sweep) ==
  IF childIds = <<>> THEN 0
  ELSE LET arcOf(id) == IF id \in DOMAIN layoutDims
                        THEN layoutDims[id].w + Px(NODE_PAD) ELSE 0
           totalArc == SumSeq([i \in DOMAIN childIds |-> arcOf(childIds[i])])
       IN  MulDiv(totalArc, Q, Max2(MulDiv(sweep, 96, 100), Q \div 10))

RECURSIVE raiseToFloors(_, _, _)
raiseToFloors(sweeps, minSweeps, i) ==
  \* first loop of enforceSweepFloors: [raised sweeps, deficit]
  IF i > Len(sweeps) THEN [sweeps |-> sweeps, deficit |-> 0]
  ELSE LET rest == raiseToFloors(sweeps, minSweeps, i + 1)
       IN  IF sweeps[i] < minSweeps[i]
           THEN [sweeps |-> [rest.sweeps EXCEPT ![i] = minSweeps[i]],
                 deficit |-> rest.deficit + minSweeps[i] - sweeps[i]]
           ELSE rest

\* enforceSweepFloors without the floors: the desired sweeps as they are
enforceSweepFloorsDesired(desiredSweeps, minSweeps, totalSweep) == desiredSweeps

\* enforceSweepFloors that raises each sweep to its floor and stops there
enforceSweepFloorsRaisedOnly(desiredSweeps, minSweeps, totalSweep) ==
  IF desiredSweeps = <<>> THEN <<>>
  ELSE raiseToFloors(desiredSweeps, minSweeps, 1).sweeps

enforceSweepFloors(desiredSweeps, minSweeps, totalSweep) ==
  IF desiredSweeps = <<>> THEN <<>>
  ELSE
    LET n == Len(desiredSweeps)
        totalMin == SumSeq(minSweeps)
    IN  IF totalMin >= totalSweep
        THEN IF totalMin <= 0
             THEN [i \in 1..n |-> RDiv(totalSweep, n)]
             ELSE [i \in 1..n |-> MulDiv(minSweeps[i], totalSweep, totalMin)]
        ELSE
          LET raised == raiseToFloors(desiredSweeps, minSweeps, 1)
              spare(i) == Max2(0, raised.sweeps[i] - minSweeps[i])
              donorTotal == SumSeq([i \in 1..n |-> spare(i)])
              sweeps ==
                IF raised.deficit > 0 /\ donorTotal > 0
                THEN [i \in 1..n |->
                        raised.sweeps[i] - MulDiv(spare(i), raised.deficit, donorTotal)]
                ELSE raised.sweeps
              normalizedTotal == SumSeq(sweeps)
          IN  IF normalizedTotal <= 0
              THEN [i \in 1..n |-> RDiv(totalSweep, n)]
              ELSE [i \in 1..n |-> MulDiv(sweeps[i], totalSweep, normalizedTotal)]

\* ringRadius of layoutRadial for the children of one node
ringRadiusFor(nodeId, children, parentRadius, sweep, ctx) ==
  LET n == Len(children)
      dims == ctx.layoutDims[nodeId]
      childType == IF children[1] \in DOMAIN ctx.nodeMap
                   THEN ctx.nodeMap[children[1]].type ELSE "task"
      baseGap == BASE_RING_GAP(childType)
      minRadius == minRadiusForChildren(children, ctx.layoutDims, sweep)
      branchDemand == [i \in 1..n |->
                         IF children[i] \in DOMAIN ctx.demand
                         THEN ctx.demand[children[i]] ELSE Px(1)]
      avgDemand == RDiv(SumSeq(branchDemand), Max2(1, n))
      sampleDims == IF children[1] \in DOMAIN ctx.layoutDims
                    THEN ctx.layoutDims[children[1]] ELSE dims
      demandScale == MulDiv(avgDemand, Q, Max2(Px(1), sampleDims.w))
      demandBoost == Min2(MulDiv(baseGap, 9, 10),
                          MulDiv(Log2Q(Q + demandScale), Px(22), Q))
      maxRadius == parentRadius + MulDiv(baseGap, 165, 100) + demandBoost + Px(n * 4)
  IN  Min2(Max2(parentRadius + baseGap, minRadius), maxRadius)

\* minAngles of layoutRadial: the angle each child's padded width spans on the ring
minAnglesFor(children, ctx, ringRadius) ==
  [i \in 1..Len(children) |->
     IF children[i] \notin DOMAIN ctx.layoutDims THEN 0
     ELSE LET w == ctx.layoutDims[children[i]].w + Px(NODE_PAD)
              ratio == Min2(MulDiv(w, Q, 2 * ringRadius), Q)
          IN  2 * Asin(ratio)]

\* desiredSweeps and minSweeps of layoutRadial, then enforceSweepFloors
sweepsFor(children, ctx, ringRadius, gapAngle, usableSweep, minAngles) ==
  LET n == Len(children)
      branchDemand == [i \in 1..n |->
                         IF children[i] \in DOMAIN ctx.demand
                         THEN ctx.demand[children[i]] ELSE Px(1)]
      totalDemand == SumSeq(branchDemand)
      totalMinAngle == SumSeq(minAngles)
      desiredSweeps ==
        [i \in 1..n |->
           LET evenWeight == RDiv(Q, n)
               demandWeight == IF totalDemand > 0
                               THEN MulDiv(branchDemand[i], Q, totalDemand)
                               ELSE RDiv(Q, n)
               widthWeight == IF totalMinAngle > 0
                              THEN MulDiv(minAngles[i], Q, totalMinAngle)
                              ELSE RDiv(Q, n)
           IN  MulDiv(RDiv(50 * evenWeight + 35 * demandWeight + 15 * widthWeight, 100),
                      usableSweep, Q)]
      minSweeps == [i \in 1..n |-> MulDiv(minAngles[i], 108, 100)]
  IN  [ringRadius |-> ringRadius, gapAngle |-> gapAngle, usableSweep |-> usableSweep,
       minSweeps |-> minSweeps, desiredSweeps |-> desiredSweeps,
       childSweeps |-> enforceSweepFloors(desiredSweeps, minSweeps, usableSweep)]

\* gapAngle and usableSweep of layoutRadial on a ring of the given radius
ringSweeps(children, sweep, ctx, ringRadius) ==
  LET n == Len(children)
      gapAngle == Min2((8 * Q) \div 100, MulDiv(Px(20), Q, Max2(Px(1), ringRadius)))
      totalGap == gapAngle * Max2(0, n - 1)
      usableSweep == Max2(sweep - totalGap, MulDiv(sweep, 7, 10))
  IN  sweepsFor(children, ctx, ringRadius, gapAngle, usableSweep,
                minAnglesFor(children, ctx, ringRadius))

\* ring radius, gap and child sweeps that layoutRadial computes for the
\* children of one node
ringPlan(nodeId, children, parentRadius, sweep, ctx) ==
  ringSweeps(children, sweep, ctx,
             ringRadiusFor(nodeId, children, parentRadius, sweep, ctx))

\* results.push of a node's own entry ahead of what its children pushed
withEntry(entry, sub) == [fault |-> sub.fault, entries |-> <<entry>> \o sub.entries]

RECURSIVE layoutRadial(_, _, _, _, _, _, _, _, _)
RECURSIVE layoutChildren(_, _, _, _, _, _, _, _, _)
RECURSIVE layoutSiblings(_, _, _, _, _, _, _, _, _, _)
\* the entries layoutRadial pushes onto results, in order; fault when the
\* recursion exhausts the stack
layoutRadial(nodeId, ctx, adj, cx, cy, parentRadius, startAngle, sweep, depth) ==
  IF depth > StackLimit THEN [fault |-> TRUE, entries |-> <<>>]
  ELSE IF nodeId \notin DOMAIN ctx.nodeMap THEN [fault |-> FALSE, entries |-> <<>>]
  ELSE
    LET dims == ctx.layoutDims[nodeId]
        entry == [id |-> nodeId, x |-> cx - RDiv(dims.w, 2), y |-> cy - RDiv(dims.h, 2)]
        children == AdjGet(adj, nodeId)
    IN  IF children = <<>> THEN [fault |-> FALSE, entries |-> <<entry>>]
        ELSE withEntry(entry,
                       layoutChildren(children, 1,
                                      ringPlan(nodeId, children, parentRadius, sweep, ctx),
                                      ctx, adj, cx, cy, startAngle, depth + 1))

\* children.forEach of layoutRadial, from child i on, angleOffset being the cursor
layoutChildren(children, i, plan, ctx, adj, cx, cy, angleOffset, depth) ==
  IF i > Len(children) THEN [fault |-> FALSE, entries |-> <<>>]
  ELSE
    LET childSweep == plan.childSweeps[i]
        angle  == angleOffset + RDiv(childSweep, 2)
        childX == cx + MulDiv(plan.ringRadius, Cos(angle), Q)
        childY == cy + MulDiv(plan.ringRadius, Sin(angle), Q)
    IN  layoutSiblings(layoutRadial(children[i], ctx, adj, childX, childY,
                                    plan.ringRadius, angle - RDiv(childSweep, 2),
                                    childSweep, depth),
                       children, i, plan, ctx, adj, cx, cy,
                       angleOffset + childSweep + plan.gapAngle, depth)

\* the rest of children.forEach once child i has pushed its entries
layoutSiblings(first, children, i, plan, ctx, adj, cx, cy, angleOffset, depth) ==
  IF first.fault THEN first
  ELSE LET rest == layoutChildren(children, i + 1, plan, ctx, adj, cx, cy,
                                  angleOffset, depth)
       IN  [fault |-> rest.fault, entries |-> first.entries \o rest.entries]

\* what applyRadialLayout derives from its arguments before placing
layoutContext(nodes, edges) ==
  LET adj == buildAdjacency(edges)
      nodeMap == NodeMap(nodes)
      layoutDims == [id \in DOMAIN nodeMap |-> nodeDims(nodeMap[id])]
      base == [nodeMap |-> nodeMap, layoutDims |-> layoutDims]
  IN  [nodeMap |-> nodeMap, layoutDims |-> layoutDims,
       demand |-> buildSubtreeDemand(base, adj)]

\* buildSubtreeDemand, then layoutRadial from the root at the origin
placeFrom(rootId, ctx, adj) ==
  IF demandFaults(ctx.demand) THEN [fault |-> TRUE, entries |-> <<>>]
  ELSE layoutRadial(rootId, ctx, adj, 0, 0, 0, -HALF_PI, TWO_PI, 1)

\* results of the radial pass of applyRadialLayout
radialPass(nodes, edges, rootId) ==
  placeFrom(rootId, layoutContext(nodes, edges), buildAdjacency(edges))

RECURSIVE ringsOf(_, _, _, _, _, _)
\* every layoutRadial call that has children, as [parent, sweep, children,
\* plan]: the sweep the call was given and what it allotted to its children
ringsOf(nodeId, ctx, adj, parentRadius, sweep, depth) ==
  IF depth > StackLimit \/ nodeId \notin DOMAIN ctx.nodeMap THEN {}
  ELSE LET children == AdjGet(adj, nodeId)
       IN  IF children = <<>> THEN {}
           ELSE LET plan == ringPlan(nodeId, children, parentRadius, sweep, ctx)
                IN  {[parent |-> nodeId, sweep |-> sweep, children |-> children,
                      plan |-> plan]}
                    \cup UNION {ringsOf(children[i], ctx, adj, plan.ringRadius,
                                        plan.childSweeps[i], depth + 1) :
                                  i \in DOMAIN children}

\* the rings of the radial pass of applyRadialLayout
radialRings(nodes, edges, rootId) ==
  ringsOf(rootId, layoutContext(nodes, edges), buildAdjacency(edges), 0, TWO_PI, 1)

\* ------------------------------------------------------------------------
\* applyRadialLayout: centres, global scaling, collision relaxation
\* ------------------------------------------------------------------------
P2(x, y) == [x |-> x, y |-> y]

IdsOf(nodes) == [i \in DOMAIN nodes |-> nodes[i].id]

\* the centers taken from the input positions, whatever the radial pass placed
initialCentersKeepInput(nodes, results) ==
  LET nodeMap == NodeMap(nodes)
  IN  [id \in DOMAIN nodeMap |->
         LET dims == visualNodeDims(nodeMap[id])
         IN  P2(nodeMap[id].position.x + RDiv(dims.w, 2),
                nodeMap[id].position.y + RDiv(dims.h, 2))]

\* centers (and anchors) right after the radial pass: the last entry that
\* layoutRadial pushed for a node, else the node's own position
initialCenters(nodes, results) ==
  LET nodeMap == NodeMap(nodes)
      placed == {results[i].id : i \in DOMAIN results}
      lastEntry(id) == results[CHOOSE i \in DOMAIN results :
                         /\ results[i].id = id
                         /\ \A j \in DOMAIN results : results[j].id = id => j <= i]
      pos(id) == IF id \in placed THEN P2(lastEntry(id).x, lastEntry(id).y)
                 ELSE nodeMap[id].position
  IN  [id \in DOMAIN nodeMap |->
         LET dims == visualNodeDims(nodeMap[id])
         IN  P2(pos(id).x + RDiv(dims.w, 2), pos(id).y + RDiv(dims.h, 2))]

targetMaxRadius(nodeCount, rootKidCount) ==
  Px(TARGET_RADIUS_BASE)
  + MulDiv(SqrtQ(nodeCount), Px(TARGET_RADIUS_PER_SQRT_NODE), Q)
  + Px(Max2(0, rootKidCount - 6) * TARGET_RADIUS_PER_EXTRA_ROOT_BRANCH)

currentMaxRadius(centers, rootId) ==
  LET rootAnchor == centers[rootId]
      radii == {Hypot(centers[id].x - rootAnchor.x, centers[id].y - rootAnchor.y) :
                  id \in DOMAIN centers \ {rootId}}
  IN  IF radii = {} THEN 0 ELSE CHOOSE r \in radii : \A q \in radii : q <= r

\* scaling that multiplies by actual / target instead of target / actual
scaleTowardInverted(centers, rootId, target, current) ==
  LET rootAnchor == centers[rootId]
  IN  IF current > target
      THEN [id \in DOMAIN centers |->
              IF id = rootId THEN centers[id]
              ELSE P2(rootAnchor.x + MulDiv(centers[id].x - rootAnchor.x, current, target),
                      rootAnchor.y + MulDiv(centers[id].y - rootAnchor.y, current, target))]
      ELSE centers

\* if (currentMaxRadius > targetMaxRadius) scale every non-root centre toward
\* the root by target / current
scaleToward(centers, rootId, target, current) ==
  LET rootAnchor == centers[rootId]
  IN  IF current > target
      THEN [id \in DOMAIN centers |->
              IF id = rootId THEN centers[id]
              ELSE P2(rootAnchor.x + MulDiv(centers[id].x - rootAnchor.x, target, current),
                      rootAnchor.y + MulDiv(centers[id].y - rootAnchor.y, target, current))]
      ELSE centers

\* the global scaling step; anchors are scaled exactly as centers are
globalScale(centers, rootId, nodeCount, rootKidCount) ==
  scaleToward(centers, rootId, targetMaxRadius(nodeCount, rootKidCount),
              currentMaxRadius(centers, rootId))

\* what the relaxation loops read besides centers and anchors
relaxContext(nodes, edges, rootId) ==
  LET adj == buildAdjacency(edges)
      nodeMap == NodeMap(nodes)
  IN  [ids |-> IdsOf(nodes), rootId |-> rootId, nodeMap |-> nodeMap,
       parentById |-> buildParentMap(edges),
       depthById |-> buildDepthMap(rootId, adj),
       visualDimsMap |-> [id \in DOMAIN nodeMap |-> visualNodeDims(nodeMap[id])]]

moveNode(centers, id, dx, dy) ==
  [centers EXCEPT ![id] = P2(@.x + dx, @.y + dy)]

\* radialHalfExtent of clampToAnchorShell along the direction (ax, ay) of length r
radialHalfExtent(ax, ay, r, dims) ==
  LET absCos == IF r = 0 THEN Q ELSE MulDiv(Abs(ax), Q, r)
      absSin == IF r = 0 THEN 0 ELSE MulDiv(Abs(ay), Q, r)
  IN  MulDiv(absCos, RDiv(dims.w, 2), Q) + MulDiv(absSin, RDiv(dims.h, 2), Q)

\* the shell without the inner core floor
shellBoundsNoCore(anchorRadius, branchFloor, coreFloor, extraDrift) ==
  LET minRadius == Max2(Max2(0, anchorRadius - Px(MIN_RADIAL_DRIFT)), branchFloor)
  IN  [minRadius |-> minRadius,
       shellMax |-> Max2(anchorRadius + Px(MAX_RADIAL_DRIFT) + extraDrift,
                         minRadius + Px(18))]

\* minRadius and shellMax of clampToAnchorShell
shellBounds(anchorRadius, branchFloor, coreFloor, extraDrift) ==
  LET minRadius == Max2(Max2(0, anchorRadius - Px(MIN_RADIAL_DRIFT)),
                        Max2(branchFloor, coreFloor))
  IN  [minRadius |-> minRadius,
       shellMax |-> Max2(anchorRadius + Px(MAX_RADIAL_DRIFT) + extraDrift,
                         minRadius + Px(18))]

\* clampToAnchorShell's rescaling without the inner bound
clampRadiusOuterOnly(centers, id, rootFrame, currentDx, currentDy, currentRadius, shell) ==
  IF currentRadius > shell.shellMax /\ currentRadius > 0
  THEN [centers EXCEPT ![id] =
          P2(rootFrame.x + MulDiv(currentDx, shell.shellMax, currentRadius),
             rootFrame.y + MulDiv(currentDy, shell.shellMax, currentRadius))]
  ELSE centers

\* the two rescalings at the end of clampToAnchorShell
clampRadius(centers, id, rootFrame, currentDx, currentDy, currentRadius, shell) ==
  IF currentRadius > shell.shellMax /\ currentRadius > 0
  THEN [centers EXCEPT ![id] =
          P2(rootFrame.x + MulDiv(currentDx, shell.shellMax, currentRadius),
             rootFrame.y + MulDiv(currentDy, shell.shellMax, currentRadius))]
  ELSE IF currentRadius < shell.minRadius /\ currentRadius > 0
  THEN [centers EXCEPT ![id] =
          P2(rootFrame.x + MulDiv(currentDx, shell.minRadius, currentRadius),
             rootFrame.y + MulDiv(currentDy, shell.minRadius, currentRadius))]
  ELSE centers

\* keep a node inside the shell around its anchor radius and outside its floors
clampToAnchorShell(centers, anchors, id, extraDrift, rc) ==
  IF id = rc.rootId THEN centers
  ELSE
    LET rootFrame == centers[rc.rootId]
        current == centers[id]
        anchor == anchors[id]
        node == rc.nodeMap[id]
        anchorDx == anchor.x - rootFrame.x
        anchorDy == anchor.y - rootFrame.y
        currentDx == current.x - rootFrame.x
        currentDy == current.y - rootFrame.y
        hasParent == id \in DOMAIN rc.parentById /\ rc.parentById[id] # ""
                     /\ rc.parentById[id] \in DOMAIN centers
        branchFloor ==
          IF hasParent
          THEN LET parentCenter == centers[rc.parentById[id]]
               IN  Hypot(parentCenter.x - rootFrame.x, parentCenter.y - rootFrame.y)
                   + CHILD_OUTWARD_GAP(node.type)
          ELSE 0
        depth == IF id \in DOMAIN rc.depthById THEN rc.depthById[id] ELSE 1
        coreFloor ==
          IF depth >= 2
          THEN LET ay == IF currentDy # 0 THEN currentDy ELSE anchorDy
                   ax == IF currentDx # 0 THEN currentDx ELSE anchorDx
               IN  Px(INNER_CORE_RADIUS) + (depth - 2) * Px(INNER_CORE_DEPTH_STEP)
                   + radialHalfExtent(ax, ay, Hypot(ax, ay), rc.visualDimsMap[id])
          ELSE 0
    IN  clampRadius(centers, id, rootFrame, currentDx, currentDy,
                    Hypot(currentDx, currentDy),
                    shellBounds(Hypot(anchorDx, anchorDy), branchFloor, coreFloor,
                                extraDrift))

\* pushPair without the root exemption: both nodes of a pair are moved
pushPairMovesRoot(centers, i, j, rc) ==
  LET idA == rc.ids[i]
      idB == rc.ids[j]
      a == centers[idA]
      b == centers[idB]
      da == rc.visualDimsMap[idA]
      db == rc.visualDimsMap[idB]
      needX == RDiv(da.w + db.w, 2) + Px(COLLISION_PAD_X)
      needY == RDiv(da.h + db.h, 2) + Px(COLLISION_PAD_Y)
      dx == b.x - a.x
      dy == b.y - a.y
      overlapX == needX - Abs(dx)
      overlapY == needY - Abs(dy)
      extra == (2 * U) \div 100
  IN  IF overlapX <= 0 \/ overlapY <= 0 THEN [centers |-> centers, moved |-> 0]
      ELSE IF overlapX < overlapY
      THEN LET dir == IF dx = 0 THEN (IF (i - 1) % 2 = 0 THEN 1 ELSE -1) ELSE Sign(dx)
               push == RDiv(overlapX, 2) + extra
           IN  [centers |-> moveNode(moveNode(centers, idA, -dir * push, 0),
                                     idB, dir * push, 0),
                moved |-> overlapX]
      ELSE LET dir == IF dy = 0 THEN (IF (j - 1) % 2 = 0 THEN 1 ELSE -1) ELSE Sign(dy)
               push == RDiv(overlapY, 2) + extra
           IN  [centers |-> moveNode(moveNode(centers, idA, 0, -dir * push),
                                     idB, 0, dir * push),
                moved |-> overlapY]

\* one pair (i, j), 1-based, of the pairwise sweep: [centers, moved]
pushPair(centers, i, j, rc) ==
  LET idA == rc.ids[i]
      idB == rc.ids[j]
      a == centers[idA]
      b == centers[idB]
      da == rc.visualDimsMap[idA]
      db == rc.visualDimsMap[idB]
      needX == RDiv(da.w + db.w, 2) + Px(COLLISION_PAD_X)
      needY == RDiv(da.h + db.h, 2) + Px(COLLISION_PAD_Y)
      dx == b.x - a.x
      dy == b.y - a.y
      overlapX == needX - Abs(dx)
      overlapY == needY - Abs(dy)
      extra == (2 * U) \div 100
  IN  IF overlapX <= 0 \/ overlapY <= 0 THEN [centers |-> centers, moved |-> 0]
      ELSE IF overlapX < overlapY
      THEN LET dir == IF dx = 0 THEN (IF (i - 1) % 2 = 0 THEN 1 ELSE -1) ELSE Sign(dx)
               push == RDiv(overlapX, 2) + extra
               c1 == IF idA # rc.rootId THEN moveNode(centers, idA, -dir * push, 0)
                     ELSE centers
               c2 == IF idB # rc.rootId THEN moveNode(c1, idB, dir * push, 0) ELSE c1
           IN  [centers |-> c2, moved |-> overlapX]
      ELSE LET dir == IF dy = 0 THEN (IF (j - 1) % 2 = 0 THEN 1 ELSE -1) ELSE Sign(dy)
               push == RDiv(overlapY, 2) + extra
               c1 == IF idA # rc.rootId THEN moveNode(centers, idA, 0, -dir * push)
                     ELSE centers
               c2 == IF idB # rc.rootId THEN moveNode(c1, idB, 0, dir * push) ELSE c1
           IN  [centers |-> c2, moved |-> overlapY]

RECURSIVE pairSweep(_, _, _, _, _)
RECURSIVE pairSweepNext(_, _, _, _, _)
\* the double loop over i < j, from pair (i, j) on
pairSweep(centers, moved, i, j, rc) ==
  IF i > Len(rc.ids) THEN [centers |-> centers, moved |-> moved]
  ELSE IF j > Len(rc.ids) THEN pairSweep(centers, moved, i + 1, i + 2, rc)
  ELSE IF rc.ids[i] \notin DOMAIN centers \/ rc.ids[j] \notin DOMAIN centers
  THEN pairSweep(centers, moved, i, j + 1, rc)      \* if (!a || !b) continue
  ELSE pairSweepNext(pushPair(centers, i, j, rc), moved, i, j, rc)

\* the double loop once pair (i, j) has been pushed
pairSweepNext(r, moved, i, j, rc) ==
  pairSweep(r.centers, moved + r.moved, i, j + 1, rc)

RECURSIVE springAndClamp(_, _, _, _)
\* second loop of a main pass: spring back toward the anchor, then clamp
springAndClamp(centers, anchors, k, rc) ==
  IF k > Len(rc.ids) THEN centers
  ELSE LET id == rc.ids[k]
       IN  IF id = rc.rootId \/ id \notin DOMAIN centers \/ id \notin DOMAIN anchors
           THEN springAndClamp(centers, anchors, k + 1, rc)
           ELSE LET cur == centers[id]
                    sprung == [centers EXCEPT ![id] =
                                 P2(cur.x + MulDiv(anchors[id].x - cur.x, SPRING_BACK, 1000),
                                    cur.y + MulDiv(anchors[id].y - cur.y, SPRING_BACK, 1000))]
                IN  springAndClamp(clampToAnchorShell(sprung, anchors, id, 0, rc),
                                   anchors, k + 1, rc)

RECURSIVE clampAll(_, _, _, _)
\* second loop of a finishing pass
clampAll(centers, anchors, k, rc) ==
  IF k > Len(rc.ids) THEN centers
  ELSE IF rc.ids[k] \notin DOMAIN centers          \* if (!current) return
  THEN clampAll(centers, anchors, k + 1, rc)
  ELSE clampAll(clampToAnchorShell(centers, anchors, rc.ids[k], Px(28), rc),
                anchors, k + 1, rc)

\* second half of a main pass, after the pairwise sweep sw
springPass(sw, anchors, rc) ==
  [centers |-> springAndClamp(sw.centers, anchors, 1, rc), moved |-> sw.moved]

\* second half of a finishing pass, after the pairwise sweep sw
clampPass(sw, anchors, rc) ==
  [centers |-> clampAll(sw.centers, anchors, 1, rc), moved |-> sw.moved]

\* one pass of the main relaxation loop: [centers, moved]
mainPass(centers, anchors, rc) ==
  springPass(pairSweep(centers, 0, 1, 2, rc), anchors, rc)

\* one pass of the finishing loop: [centers, moved]
finalPass(centers, anchors, rc) ==
  clampPass(pairSweep(centers, 0, 1, 2, rc), anchors, rc)

MOVED_EPSILON == U \div 2         \* moved < 0.5

\* layoutedNodes that rebuilds each node from id, type and position only
layoutedNodesRebuilt(nodes, centers, rootId) ==
  LET rootShift == centers[rootId]
  IN  [i \in DOMAIN nodes |->
         LET node == nodes[i]
             dims == visualNodeDims(NodeMap(nodes)[node.id])
             center == centers[node.id]
         IN  MkNode(node.id, node.type, 0, NoSize, NoSize,
                    center.x - rootShift.x - RDiv(dims.w, 2),
                    center.y - rootShift.y - RDiv(dims.h, 2))]

\* layoutedNodes: every node with its position replaced
layoutedNodes(nodes, centers, rootId) ==
  LET rootShift == centers[rootId]
  IN  [i \in DOMAIN nodes |->
         LET node == nodes[i]
             dims == visualNodeDims(NodeMap(nodes)[node.id])
             center == centers[node.id]
         IN  [node EXCEPT !.position =
                P2(center.x - rootShift.x - RDiv(dims.w, 2),
                   center.y - rootShift.y - RDiv(dims.h, 2))]]

RECURSIVE mainLoop(_, _, _, _)
RECURSIVE mainLoopNext(_, _, _, _)
\* the main relaxation loop from pass `iter` (0-based) on
mainLoop(centers, anchors, iter, rc) ==
  IF iter >= COLLISION_ITERS THEN centers
  ELSE mainLoopNext(mainPass(centers, anchors, rc), anchors, iter, rc)

\* if (moved < 0.5) break, after the pass r of the main loop
mainLoopNext(r, anchors, iter, rc) ==
  IF r.moved < MOVED_EPSILON THEN r.centers
  ELSE mainLoop(r.centers, anchors, iter + 1, rc)

RECURSIVE finalLoop(_, _, _, _)
RECURSIVE finalLoopNext(_, _, _, _)
\* the finishing loop from pass `iter` (0-based) on
finalLoop(centers, anchors, iter, rc) ==
  IF iter >= FINAL_ITERS THEN centers
  ELSE finalLoopNext(finalPass(centers, anchors, rc), anchors, iter, rc)

\* if (moved < 0.5) break, after the pass r of the finishing loop
finalLoopNext(r, anchors, iter, rc) ==
  IF r.moved < MOVED_EPSILON THEN r.centers
  ELSE finalLoop(r.centers, anchors, iter + 1, rc)

\* both relaxation loops, from the scaled centers (which are also the anchors)
relax(scaled, rc) == finalLoop(mainLoop(scaled, scaled, 0, rc), scaled, 0, rc)

\* applyRadialLayout once the radial pass has produced `placed`
layoutFrom(nodes, edges, rootId, placed) ==
  IF placed.fault
  THEN [fault |-> TRUE, nodes |-> nodes, edges |-> edges]
  ELSE [fault |-> FALSE,
        nodes |-> layoutedNodes(
                    nodes,
                    relax(globalScale(initialCenters(nodes, placed.entries), rootId,
                                      Len(nodes),
                                      Len(AdjGet(buildAdjacency(edges), rootId))),
                          relaxContext(nodes, edges, rootId)),
                    rootId),
        edges |-> edges]

\* applyRadialLayout(nodes, edges) with the root already found
layoutWithRoot(nodes, edges, rootId) ==
  IF rootId = Undefined \/ rootId = ""
  THEN [fault |-> FALSE, nodes |-> nodes, edges |-> edges]
  ELSE layoutFrom(nodes, edges, rootId, radialPass(nodes, edges, rootId))

\* applyRadialLayout(nodes, edges): [fault, nodes, edges]
applyRadialLayout(nodes, edges) ==
  layoutWithRoot(nodes, edges, findRoot(nodes, buildAdjacency(edges)))

\* ------------------------------------------------------------------------
\* Store: geometry helpers of addChildNode
\* ------------------------------------------------------------------------
Null == "null"                    \* null of activeProjectId, selectedNodeId, ...

NODE_SIZE_FALLBACK ==
  [root    |-> [w |-> Px(160), h |-> Px(56)],
   domain  |-> [w |-> Px(170), h |-> Px(50)],
   feature |-> [w |-> Px(180), h |-> Px(70)],
   task    |-> [w |-> Px(180), h |-> Px(70)]]

\* NODE_SIZE_FALLBACK[type] ?? NODE_SIZE_FALLBACK.task
sizeFallback(type) ==
  IF type \in DOMAIN NODE_SIZE_FALLBACK THEN NODE_SIZE_FALLBACK[type]
  ELSE NODE_SIZE_FALLBACK.task

\* nodeDims of the store: measured size, else the fallback of the type
storeNodeDims(node) ==
  [w |-> IF node.measuredW # NoSize THEN node.measuredW ELSE sizeFallback(node.type).w,
   h |-> IF node.measuredH # NoSize THEN node.measuredH ELSE sizeFallback(node.type).h]

nodeCenter(node) ==
  P2(node.position.x + RDiv(storeNodeDims(node).w, 2),
     node.position.y + RDiv(storeNodeDims(node).h, 2))

Max3(a, b, c) == Max2(a, Max2(b, c))

\* distance between two rectangles; minus the smaller overlap when they meet
rectClearanceOf(dx, dy, a, b) ==
  IF dx = 0 /\ dy = 0
  THEN -Min2(Min2(a.x + a.w, b.x + b.w) - Max2(a.x, b.x),
             Min2(a.y + a.h, b.y + b.h) - Max2(a.y, b.y))
  ELSE Hypot(dx, dy)

rectClearance(a, b) ==
  rectClearanceOf(Max3(b.x - (a.x + a.w), a.x - (b.x + b.w), 0),
                  Max3(b.y - (a.y + a.h), a.y - (b.y + b.h), 0), a, b)

\* angle % 2pi, made non-negative
normalizeAngle(angle) ==
  LET next == Sign(angle) * (Abs(angle) % TWO_PI)
  IN  IF next < 0 THEN next + TWO_PI ELSE next

angleDistanceOf(diff) == IF diff > PI THEN TWO_PI - diff ELSE diff

angleDistance(a, b) == angleDistanceOf(Abs(normalizeAngle(a) - normalizeAngle(b)))

\* Math.atan2 from the first-octant angle t of (|x|, |y|) folded back
Atan2Fold(y, x, t) ==
  IF x >= 0 THEN (IF y >= 0 THEN t ELSE -t)
  ELSE (IF y >= 0 THEN PI - t ELSE t - PI)

Atan2Acute(ay, ax, r) ==
  IF ay <= ax THEN Asin(MulDiv(ay, Q, r)) ELSE HALF_PI - Asin(MulDiv(ax, Q, r))

\* Math.atan2(y, x) in 1/Q
Atan2(y, x) ==
  IF x = 0 /\ y = 0 THEN 0
  ELSE Atan2Fold(y, x, Atan2Acute(Abs(y), Abs(x), Hypot(x, y)))

RECURSIVE insertSorted(_, _)
insertSorted(s, v) ==
  IF s = <<>> THEN <<v>>
  ELSE IF v < Head(s) THEN <<v>> \o s
  ELSE <<Head(s)>> \o insertSorted(Tail(s), v)

RECURSIVE sortAscending(_)
\* [...angles].sort((x, y) => x - y)
sortAscending(s) ==
  IF s = <<>> THEN <<>> ELSE insertSorted(sortAscending(Tail(s)), Head(s))

RECURSIVE largestGap(_, _, _, _)
\* the loop of largestGapMidAngle from index i on: bestMid
largestGap(sorted, i, bestGap, bestMid) ==
  IF i > Len(sorted) THEN bestMid
  ELSE LET current == sorted[i]
           next == IF i = Len(sorted) THEN sorted[1] + TWO_PI ELSE sorted[i + 1]
           gap == next - current
       IN  IF gap > bestGap
           THEN largestGap(sorted, i + 1, gap, current + RDiv(gap, 2))
           ELSE largestGap(sorted, i + 1, bestGap, bestMid)

largestGapOfSorted(sorted) == normalizeAngle(largestGap(sorted, 1, -1, sorted[1]))

\* largestGapMidAngle(angles); Null for no angles
largestGapMidAngle(angles) ==
  IF angles = <<>> THEN Null
  ELSE IF Len(angles) = 1 THEN normalizeAngle(angles[1] + PI)
  ELSE largestGapOfSorted(sortAscending([i \in DOMAIN angles |-> normalizeAngle(angles[i])]))

\* ------------------------------------------------------------------------
\* Store: addChildNode
\* ------------------------------------------------------------------------
\* a childTypeMap that keeps features under features
childTypeMapFeatureStays ==
  [root |-> "domain", domain |-> "feature", feature |-> "feature", task |-> "task"]

childTypeMap == [root |-> "domain", domain |-> "feature", feature |-> "task", task |-> "task"]

childTypeOf(parentType) ==
  IF parentType \in DOMAIN childTypeMap THEN childTypeMap[parentType] ELSE "task"

baseDistByParentType == [root |-> 208, domain |-> 172, feature |-> 148, task |-> 142]

baseDistOf(parentType) ==
  IF parentType \in DOMAIN baseDistByParentType THEN Px(baseDistByParentType[parentType])
  ELSE Px(150)

\* candidateOffsets, in hundredths of a radian
candidateOffsets == <<0, 30, -30, 56, -56, 84, -84, 112, -112, 142, -142, 174, -174>>

\* the scales of candidateDistances, in hundredths
candidateScales == <<100, 116, 134, 154, 178, 204, 232>>

placementPad == 14

hasNode(nodes, id) == \E i \in DOMAIN nodes : nodes[i].id = id

\* project.nodes.find(n => n.id === id), for an id some node has
findNode(nodes, id) ==
  nodes[CHOOSE i \in DOMAIN nodes :
          nodes[i].id = id /\ \A j \in DOMAIN nodes : nodes[j].id = id => i <= j]

\* project.nodes.find(node => node.data.type === "root") ?? parent
rootOrParent(nodes, parent) ==
  IF \E i \in DOMAIN nodes : nodes[i].type = "root"
  THEN nodes[CHOOSE i \in DOMAIN nodes :
               nodes[i].type = "root" /\ \A j \in DOMAIN nodes : nodes[j].type = "root" => i <= j]
  ELSE parent

\* project.edges.filter(e => e.data?.edgeType === "hierarchy")
hierarchyEdgesOf(edges) == SelectSeq(edges, IsHierarchy)

\* the nodes that hierarchy edges out of parentId point to, in edge order
childrenOf(nodes, hierarchyEdges, parentId) ==
  LET out == SelectSeq(hierarchyEdges,
                       LAMBDA e : e.source = parentId /\ hasNode(nodes, e.target))
  IN  [i \in DOMAIN out |-> NodeMap(nodes)[out[i].target]]

\* children.map(child => atan2(c.y - parentCenter.y, c.x - parentCenter.x))
childAnglesOf(children, parentCenter) ==
  [i \in DOMAIN children |->
     Atan2(nodeCenter(children[i]).y - parentCenter.y,
           nodeCenter(children[i]).x - parentCenter.x)]

\* nodeById.get(incomingEdge.source) of the first hierarchy edge into parentId:
\* <<node>>, or <<>> when there is no such edge or no such node
incomingOf(nodes, hierarchyEdges, parentId) ==
  LET into == SelectSeq(hierarchyEdges, LAMBDA e : e.target = parentId)
  IN  IF into = <<>> THEN <<>>
      ELSE IF hasNode(nodes, into[1].source) THEN <<NodeMap(nodes)[into[1].source]>>
      ELSE <<>>

\* preferredAngle of a parent other than the root
outwardAngle(nodes, hierarchyEdges, parent, parentCenter, rootCenter, incoming) ==
  IF Hypot(parentCenter.x - rootCenter.x, parentCenter.y - rootCenter.y) > Px(1)
  THEN Atan2(parentCenter.y - rootCenter.y, parentCenter.x - rootCenter.x)
  ELSE IF incoming # <<>>
  THEN Atan2(parentCenter.y - nodeCenter(incoming[1]).y,
             parentCenter.x - nodeCenter(incoming[1]).x)
  ELSE -HALF_PI

preferredAngleOf(nodes, hierarchyEdges, parent, root, childAngles) ==
  IF parent.id = root.id
  THEN (IF childAngles = <<>> THEN -HALF_PI       \* largestGapMidAngle(..) ?? -pi/2
        ELSE largestGapMidAngle(childAngles))
  ELSE outwardAngle(nodes, hierarchyEdges, parent, nodeCenter(parent), nodeCenter(root),
                    incomingOf(nodes, hierarchyEdges, parent.id))

\* candidateDistances
candidateDistance(baseDist, childCount, k) ==
  MulDiv(baseDist + Px(Min2(40, childCount * 7)), candidateScales[k], 100)

existingRectsOf(nodes) ==
  [i \in DOMAIN nodes |->
     [id |-> nodes[i].id, x |-> nodes[i].position.x, y |-> nodes[i].position.y,
      w |-> storeNodeDims(nodes[i]).w, h |-> storeNodeDims(nodes[i]).h]]

RECURSIVE minOf(_)
minOf(s) == IF Len(s) = 1 THEN s[1] ELSE Min2(s[1], minOf(Tail(s)))

\* Math.min over the sibling angles, starting from Math.PI
nearestSiblingAngle(childAngles, angle) ==
  IF childAngles = <<>> THEN PI
  ELSE Min2(PI, minOf([i \in DOMAIN childAngles |-> angleDistance(childAngles[i], angle)]))

\* overlapCount and minClearance of a candidate rectangle; existingRects holds
\* the parent at least
candidateOf(rect, clearances, dist, nearest) ==
  [found |-> TRUE, x |-> rect.x, y |-> rect.y,
   overlapCount |-> Cardinality({i \in DOMAIN clearances : clearances[i] < Px(placementPad)}),
   minClearance |-> minOf(clearances),
   dist |-> dist,
   siblingAnglePenalty |-> Max2(0, 34 * (Q \div 100) - nearest)]

rectAround(cx, cy, dims) ==
  [x |-> cx - RDiv(dims.w, 2), y |-> cy - RDiv(dims.h, 2), w |-> dims.w, h |-> dims.h]

clearancesOf(rect, existingRects) ==
  [i \in DOMAIN existingRects |-> rectClearance(rect, existingRects[i])]

evaluateAt(rect, existingRects, dist, nearest) ==
  candidateOf(rect, clearancesOf(rect, existingRects), dist, nearest)

evaluateCandidate(angle, dist, parentCenter, childDims, existingRects, childAngles) ==
  evaluateAt(rectAround(parentCenter.x + MulDiv(Cos(angle), dist, Q),
                        parentCenter.y + MulDiv(Sin(angle), dist, Q), childDims),
             existingRects, dist, nearestSiblingAngle(childAngles, angle))

\* the score that ranks violating candidates first
candidateScoreInverted(c) ==
  - c.overlapCount * 10000 * U
  + MulDiv(c.siblingAnglePenalty, 620 * U, Q)
  + MulDiv(c.dist, 18, 100)
  - MulDiv(Min2(c.minClearance, Px(220)), 21, 10)

\* overlapCount * 10000 + siblingAnglePenalty * 620 + dist * 0.18
\*   - Math.min(minClearance, 220) * 2.1, in 1/U
candidateScore(c) ==
  c.overlapCount * 10000 * U
  + MulDiv(c.siblingAnglePenalty, 620 * U, Q)
  + MulDiv(c.dist, 18, 100)
  - MulDiv(Min2(c.minClearance, Px(220)), 21, 10)

NoPlacement == [found |-> FALSE]

\* if (candidateScore < bestScore) bestPlacement = candidate
betterOf(best, candidate) ==
  IF ~best.found THEN candidate
  ELSE IF candidateScore(candidate) < candidateScore(best) THEN candidate
  ELSE best

\* a break after the first ring, whatever its best candidate
isClearAnyFound(best) == best.found

\* a search that never breaks: every distance is tried
isClearNever(best) == FALSE

isClear(best) ==
  best.found /\ best.overlapCount = 0 /\ best.minClearance >= Px(placementPad)

\* what a placement search reads: [preferredAngle, parentCenter, childDims,
\* existingRects, childAngles, baseDist, childCount]
candidateAt(pl, k, m) ==
  evaluateCandidate(pl.preferredAngle + candidateOffsets[m] * (Q \div 100),
                    pl.candidateDistances[k],
                    pl.parentCenter, pl.childDims, pl.existingRects, pl.childAngles)

RECURSIVE searchOffsets(_, _, _, _)
\* the inner loop over candidateOffsets at distance k, from offset m on; the
\* first candidate of a search replaces the initial bestScore of +Infinity
searchOffsets(pl, best, k, m) ==
  IF m > Len(candidateOffsets) THEN best
  ELSE IF ~best.found THEN searchOffsets(pl, candidateAt(pl, k, m), k, m + 1)
  ELSE searchOffsets(pl, betterOf(best, candidateAt(pl, k, m)), k, m + 1)

RECURSIVE searchDistances(_, _, _)
RECURSIVE searchNextDistance(_, _, _)
\* the outer loop over candidateDistances, from distance k on
searchDistances(pl, best, k) ==
  IF k > Len(pl.candidateDistances) THEN best
  ELSE searchNextDistance(pl, searchOffsets(pl, best, k, 1), k)

\* the break after a ring whose best candidate is clear
searchNextDistance(pl, best, k) ==
  IF isClear(best) THEN best ELSE searchDistances(pl, best, k + 1)

\* childCenter of addChildNode, as the top-left corner of the new node
placementCorner(pl, best) ==
  IF best.found THEN P2(best.x, best.y)
  ELSE P2(pl.parentCenter.x + MulDiv(Cos(pl.preferredAngle), pl.baseDist, Q)
            - RDiv(pl.childDims.w, 2),
          pl.parentCenter.y + MulDiv(Sin(pl.preferredAngle), pl.baseDist, Q)
            - RDiv(pl.childDims.h, 2))

placementOf(nodes, hierarchyEdges, parent, children) ==
  [preferredAngle |->
     preferredAngleOf(nodes, hierarchyEdges, parent, rootOrParent(nodes, parent),
                      childAnglesOf(children, nodeCenter(parent))),
   parentCenter |-> nodeCenter(parent),
   childDims |-> sizeFallback(childTypeOf(parent.type)),
   existingRects |-> existingRectsOf(nodes),
   childAngles |-> childAnglesOf(children, nodeCenter(parent)),
   baseDist |-> baseDistOf(parent.type),
   candidateDistances |->
     [k \in DOMAIN candidateScales |->
        candidateDistance(baseDistOf(parent.type), Len(children), k)],
   childCount |-> Len(children)]

\* what addChildNode derives from the project before searching
placementFor(nodes, edges, parentId) ==
  placementOf(nodes, hierarchyEdgesOf(edges), findNode(nodes, parentId),
              childrenOf(nodes, hierarchyEdgesOf(edges), parentId))

spawnAt(pl) == placementCorner(pl, searchDistances(pl, NoPlacement, 1))

\* position of the node addChildNode(parentId) creates
spawnPosition(nodes, edges, parentId) == spawnAt(placementFor(nodes, edges, parentId))

\* the node addChildNode creates: empty label, no measured size, status
\* "pending" on features and tasks only
newChildNode(id, childType, position) ==
  IF childType \in {"task", "feature"}
  THEN [id |-> id, type |-> childType, labelLen |-> 0, measuredW |-> NoSize,
        measuredH |-> NoSize, position |-> position, status |-> "pending"]
  ELSE [id |-> id, type |-> childType, labelLen |-> 0, measuredW |-> NoSize,
        measuredH |-> NoSize, position |-> position]

StoreEdge(id, source, target, edgeType) ==
  [id |-> id, source |-> source, target |-> target, edgeType |-> edgeType]

\* ------------------------------------------------------------------------
\* Store: createProject
\* ------------------------------------------------------------------------
Lowercase == [A |-> "a", B |-> "b", M |-> "m"]

\* String.prototype.toLowerCase on one character
toLowerCase(c) == IF c \in DOMAIN Lowercase THEN Lowercase[c] ELSE c

Alnum == {"a", "b", "m", "i", "1"}

RECURSIVE dashRuns(_, _)
\* replace(/[^a-z0-9]+/g, "-"): inRun says the previous character was replaced
dashRuns(chars, inRun) ==
  IF chars = <<>> THEN <<>>
  ELSE IF Head(chars) \in Alnum THEN <<Head(chars)>> \o dashRuns(Tail(chars), FALSE)
  ELSE IF inRun THEN dashRuns(Tail(chars), TRUE)
  ELSE <<"-">> \o dashRuns(Tail(chars), TRUE)

\* replace(/^-|-$/g, ""): one leading and one trailing dash
trimDashes(chars) ==
  LET a == IF chars # <<>> /\ Head(chars) = "-" THEN Tail(chars) ELSE chars
  IN  IF a # <<>> /\ a[Len(a)] = "-" THEN SubSeq(a, 1, Len(a) - 1) ELSE a

RECURSIVE joinChars(_)
joinChars(chars) == IF chars = <<>> THEN "" ELSE Head(chars) \o joinChars(Tail(chars))

\* the project id createProject derives from a name
projectIdOf(name) ==
  joinChars(trimDashes(dashRuns([i \in DOMAIN name |-> toLowerCase(name[i])], FALSE)))

newProject(name) ==
  [id |-> projectIdOf(name), name |-> joinChars(name),
   nodes |-> << [id |-> projectIdOf(name) \o "-root", type |-> "root",
                 labelLen |-> Len(name), measuredW |-> NoSize, measuredH |-> NoSize,
                 position |-> P2(0, 0)] >>,
   edges |-> <<>>]

\* ------------------------------------------------------------------------
\* Store: deleteNode
\* ------------------------------------------------------------------------
\* a collect that takes the children of the node and stops there
collectChildrenOnly(frontier, edges, idsToDelete) ==
  frontier \cup {edges[k].target : k \in {j \in DOMAIN edges :
                    edges[j].source \in frontier /\ IsHierarchy(edges[j])}}

RECURSIVE collect(_, _, _)
\* collect(id) of deleteNode over every id of `frontier`: idsToDelete
collect(frontier, edges, idsToDelete) ==
  IF frontier = {} THEN idsToDelete
  ELSE LET next == {edges[k].target : k \in {j \in DOMAIN edges :
                       /\ edges[j].source \in frontier
                       /\ IsHierarchy(edges[j])}} \ (idsToDelete \cup frontier)
       IN  collect(next, edges, idsToDelete \cup frontier)

\* ------------------------------------------------------------------------
\* State
\* ------------------------------------------------------------------------
VARIABLES
  inNodes,      \* applyRadialLayout: the nodes argument
  inEdges,      \* applyRadialLayout: the edges argument
  pc,           \* where the call is: "call", "placed", "main", "final",
                \* "relaxed", "done" (returned), "fault" (threw)
  centers,      \* Map id -> centre, mutated by scaling and relaxation
  anchors,      \* Map id -> anchor
  mainIters,    \* passes of the main relaxation loop run so far
  finalIters,   \* passes of the finishing loop run so far
  moved,        \* `moved` of the last pass run
  outNodes,     \* the returned nodes
  outEdges      \* the returned edges

layoutVars == <<inNodes, inEdges, pc, centers, anchors, mainIters, finalIters,
                moved, outNodes, outEdges>>
VARIABLES
  projects,         \* store: ProjectData[], each [id, name, nodes, edges]
  activeProjectId,  \* store: string | null
  selectedNodeId,   \* store: string | null
  editingNodeId,    \* store: string | null
  layoutVersion,    \* store: number
  connectMode,      \* store: "off" | "blocking"
  connectSourceId,  \* store: string | null
  nodeCounter       \* module-level counter behind new node ids

storeVars == <<projects, activeProjectId, selectedNodeId, editingNodeId, layoutVersion,
               connectMode, connectSourceId, nodeCounter>>
\* what the App component's layout effect saw when it last ran (its dependency
\* array [activeProjectId, activeProject?.nodes.length]); NoLength is undefined
VARIABLES
  effectDeps

\* the store's save status and the state of the useDebouncedSave hook
VARIABLES
  saveStatus,           \* store: "saved" | "dirty" | "saving" | "error"
  saveDeps,             \* the `project` the save effect last ran with
  prevRef,              \* useRef: the project last serialized
  currentProjectIdRef,  \* useRef: string | null
  timeoutRef,           \* the pending timer and the project its callback holds
  inFlight,             \* PUT requests sent and not yet answered
  sent                  \* the projects last sent to the server, one for each id

saveVars == <<saveStatus, saveDeps, prevRef, currentProjectIdRef, timeoutRef, inFlight, sent>>

appVars == <<effectDeps, saveVars>>

vars == <<layoutVars, storeVars, appVars>>

\* activeProject?.nodes.length of a project that is not there
NoLength == 0 - 1

\* the App component before its first render: the layout effect has not run
AppInit ==
  /\ effectDeps = [id |-> Null, len |-> NoLength]
  /\ saveStatus = "saved"
  /\ saveDeps = <<>>
  /\ prevRef = <<>>
  /\ currentProjectIdRef = Null
  /\ timeoutRef = <<>>
  /\ inFlight = 0
  /\ sent = {}

\* the store as create() leaves it
StoreInit ==
  /\ projects = <<>>
  /\ activeProjectId = Null
  /\ selectedNodeId = Null
  /\ editingNodeId = Null
  /\ layoutVersion = 0
  /\ connectMode = "off"
  /\ connectSourceId = Null
  /\ nodeCounter = 0

\* ------------------------------------------------------------------------
\* Inputs of the layout specification
\* ------------------------------------------------------------------------
Ids == <<"r", "a", "b", "c", "d", "e">>
Ghost == "g"                      \* an id that is in no node list

Reverse(s) == [i \in DOMAIN s |-> s[Len(s) + 1 - i]]

\* trees on Ids[1..n]: every node hangs off the root or off the node before it
ParentVectors(n) == {pv \in [2..n -> 1..n] : \A k \in 2..n : pv[k] \in {1, k - 1}}

RECURSIVE TreeDepth(_, _)
TreeDepth(pv, k) == IF k = 1 THEN 0 ELSE 1 + TreeDepth(pv, pv[k])

TypeAtDepth(d) ==
  IF d = 0 THEN "root" ELSE IF d = 1 THEN "domain" ELSE IF d = 2 THEN "feature" ELSE "task"

TreeEdges(n, pv) ==
  [k \in 1..(n - 1) |-> MkEdge(Ids[pv[k + 1]], Ids[k + 1], "hierarchy")]

Profiles == {"plain", "long", "measured", "goal", "placed"}

\* the node list of a tree under a sizing profile
TreeNodes(n, pv, profile) ==
  [k \in 1..n |->
     LET d == TreeDepth(pv, k)
         type == IF profile = "goal" /\ k = n /\ k > 1 THEN "goal" ELSE TypeAtDepth(d)
         labelLen == IF profile = "long" THEN 40 ELSE IF profile = "goal" THEN 0 ELSE 3
         big == profile = "measured" /\ k = n
         far == profile = "placed"
     IN  MkNode(Ids[k], type, labelLen,
                IF big THEN Px(600) ELSE NoSize, IF big THEN Px(300) ELSE NoSize,
                IF far THEN Px(400 * k) ELSE 0, IF far THEN Px(-90 * k) ELSE 0)]

\* edges a malformed input may carry besides the tree's
ExtraEdges(n) ==
  LET ids == {Ids[k] : k \in 1..n}
  IN    {MkEdge(Ghost, Ids[1], "hierarchy"), MkEdge(Ids[1], Ghost, "hierarchy"),
         MkEdge(Ghost, Ids[n], "hierarchy"), MkEdge(Ids[n], Ghost, "hierarchy"),
         MkEdge(Ids[n], Ids[n], "hierarchy"), MkEdge(Ids[n], Ids[1], "hierarchy")}
   \cup {MkEdge(Ids[n], Ids[k], t) : k \in 2..n, t \in {"hierarchy", "blocks", "none"}}
   \cup {MkEdge(Ids[1], Ids[n], t) : t \in {"hierarchy", "blocks"}}

DropAt(s, i) == [k \in 1..(Len(s) - 1) |-> IF k < i THEN s[k] ELSE s[k + 1]]

TreesOfSize(n) == {[n |-> n, pv |-> pv] : pv \in ParentVectors(n)}
Trees == UNION {TreesOfSize(n) : n \in 1..MaxNodes}
SmallTrees == UNION {TreesOfSize(n) : n \in 1..(MaxNodes - 1)}

\* valid rooted trees, in list order or reversed
WellFormedInputs ==
  {[nodes |-> IF rev THEN Reverse(TreeNodes(t.n, t.pv, p)) ELSE TreeNodes(t.n, t.pv, p),
    edges |-> TreeEdges(t.n, t.pv)] : t \in Trees, p \in Profiles, rev \in BOOLEAN}

\* a tree plus one edge it should not have, before or after the tree's edges
MalformedInputs ==
  UNION {{[nodes |-> TreeNodes(t.n, t.pv, "plain"),
           edges |-> IF front THEN <<x>> \o TreeEdges(t.n, t.pv)
                     ELSE Append(TreeEdges(t.n, t.pv), x)] :
            x \in ExtraEdges(t.n), front \in BOOLEAN} : t \in SmallTrees}

\* a tree with one of its edges missing: more than one parentless node
ForestInputs ==
  UNION {{[nodes |-> TreeNodes(t.n, t.pv, p),
           edges |-> DropAt(TreeEdges(t.n, t.pv), i)] :
            i \in 1..(t.n - 1), p \in {"plain", "placed"}} : t \in SmallTrees}

\* a chain root, domain, feature whose last card is measured far taller than
\* the size the ring radii allow for
TallCardInputs ==
  {[nodes |-> <<MkNode("r", "root", 3, NoSize, NoSize, 0, 0),
               MkNode("a", "domain", 3, NoSize, NoSize, 0, 0),
               MkNode("b", "feature", 3, Px(180), Px(h), 0, 0)>>,
    edges |-> <<MkEdge("r", "a", "hierarchy"), MkEdge("a", "b", "hierarchy")>>] :
     h \in {600, 1000}}

\* a root with three domains, the last one measured wide enough that its
\* floor exceeds the sweep it would otherwise get, the three floors still
\* fitting into the circle
WideCardInputs ==
  {[nodes |-> <<MkNode("r", "root", 3, NoSize, NoSize, 0, 0),
               MkNode("a", "domain", 3, NoSize, NoSize, 0, 0),
               MkNode("b", "domain", 3, NoSize, NoSize, 0, 0),
               MkNode("c", "domain", 3, Px(300), Px(50), 0, 0)>>,
    edges |-> <<MkEdge("r", "a", "hierarchy"), MkEdge("r", "b", "hierarchy"),
                MkEdge("r", "c", "hierarchy")>>]}

\* a chain root, domain, feature, task with a domain card measured far larger
\* than the rings allow for, listed parents first or root first and then
\* children before their parents
CrowdedChainInputs ==
  LET r == MkNode("r", "root", 3, NoSize, NoSize, 0, 0)
      a == MkNode("a", "domain", 3, Px(1400), Px(1000), 0, 0)
      b == MkNode("b", "feature", 3, NoSize, NoSize, 0, 0)
      c == MkNode("c", "task", 3, Px(300), Px(300), 0, 0)
  IN  {[nodes |-> order,
        edges |-> <<MkEdge("r", "a", "hierarchy"), MkEdge("a", "b", "hierarchy"),
                    MkEdge("b", "c", "hierarchy")>>] :
         order \in {<<r, a, b, c>>, <<r, c, b, a>>}}

LayoutInputs ==
  {[nodes |-> <<>>, edges |-> <<>>]} \cup WellFormedInputs \cup MalformedInputs
  \cup ForestInputs \cup TallCardInputs \cup WideCardInputs \cup CrowdedChainInputs

\* ------------------------------------------------------------------------
\* applyRadialLayout as a step machine
\* ------------------------------------------------------------------------
RootId == findRoot(inNodes, buildAdjacency(inEdges))
RelaxCtx == relaxContext(inNodes, inEdges, RootId)

NoMap == <<>>

LayoutInit ==
  /\ StoreInit
  /\ AppInit
  /\ \E input \in LayoutInputs : inNodes = input.nodes /\ inEdges = input.edges
  /\ pc = "call"
  /\ centers = NoMap /\ anchors = NoMap
  /\ mainIters = 0 /\ finalIters = 0 /\ moved = 0
  /\ outNodes = <<>> /\ outEdges = <<>>

\* if (!rootId) return { nodes, edges }
ReturnInput ==
  /\ pc = "call"
  /\ RootId = Undefined \/ RootId = ""
  /\ pc' = "done"
  /\ outNodes' = inNodes /\ outEdges' = inEdges
  /\ UNCHANGED storeVars
  /\ UNCHANGED <<inNodes, inEdges, centers, anchors, mainIters, finalIters, moved>>
  /\ UNCHANGED appVars

\* buildSubtreeDemand or layoutRadial exhausts the call stack
Overflow ==
  /\ pc = "call"
  /\ RootId # Undefined /\ RootId # ""
  /\ radialPass(inNodes, inEdges, RootId).fault
  /\ pc' = "fault"
  /\ UNCHANGED storeVars
  /\ UNCHANGED <<inNodes, inEdges, centers, anchors, mainIters, finalIters, moved,
                 outNodes, outEdges>>
  /\ UNCHANGED appVars

\* centers and anchors from the results of the radial pass
SetCenters(placed) ==
  /\ ~placed.fault
  /\ centers' = initialCenters(inNodes, placed.entries)
  /\ anchors' = centers'

\* demand, radial placement, centers and anchors
Place ==
  /\ pc = "call"
  /\ RootId # Undefined /\ RootId # ""
  /\ SetCenters(radialPass(inNodes, inEdges, RootId))
  /\ pc' = "placed"
  /\ UNCHANGED storeVars
  /\ UNCHANGED <<inNodes, inEdges, mainIters, finalIters, moved, outNodes, outEdges>>
  /\ UNCHANGED appVars

\* global scaling of centers and anchors toward the root
Scale ==
  /\ pc = "placed"
  /\ centers' = globalScale(centers, RootId, Len(inNodes),
                            Len(AdjGet(buildAdjacency(inEdges), RootId)))
  /\ anchors' = centers'
  /\ pc' = "main"
  /\ UNCHANGED storeVars
  /\ UNCHANGED <<inNodes, inEdges, mainIters, finalIters, moved, outNodes, outEdges>>
  /\ UNCHANGED appVars

\* a main pass whose loop has no iteration cap
AfterMainPassUncapped(r) ==
  /\ centers' = r.centers
  /\ moved' = r.moved
  /\ mainIters' = mainIters + 1
  /\ pc' = IF r.moved < MOVED_EPSILON THEN "final" ELSE "main"

\* the assignments of one main pass r, and if (moved < 0.5) break
AfterMainPass(r) ==
  /\ centers' = r.centers
  /\ moved' = r.moved
  /\ mainIters' = mainIters + 1
  /\ pc' = IF r.moved < MOVED_EPSILON \/ mainIters + 1 >= COLLISION_ITERS
           THEN "final" ELSE "main"

\* one pass of  for (iter < COLLISION_ITERS) { ...; if (moved < 0.5) break }
MainPass ==
  /\ pc = "main"
  /\ AfterMainPass(mainPass(centers, anchors, RelaxCtx))
  /\ UNCHANGED storeVars
  /\ UNCHANGED <<inNodes, inEdges, anchors, finalIters, outNodes, outEdges>>
  /\ UNCHANGED appVars

\* the assignments of one finishing pass r, and if (moved < 0.5) break
AfterFinalPass(r) ==
  /\ centers' = r.centers
  /\ moved' = r.moved
  /\ finalIters' = finalIters + 1
  /\ pc' = IF r.moved < MOVED_EPSILON \/ finalIters + 1 >= FINAL_ITERS
           THEN "relaxed" ELSE "final"

\* one pass of  for (iter < 24) { ...; if (moved < 0.5) break }
FinalPass ==
  /\ pc = "final"
  /\ AfterFinalPass(finalPass(centers, anchors, RelaxCtx))
  /\ UNCHANGED storeVars
  /\ UNCHANGED <<inNodes, inEdges, anchors, mainIters, outNodes, outEdges>>
  /\ UNCHANGED appVars

\* return { nodes: layoutedNodes, edges }
Return ==
  /\ pc = "relaxed"
  /\ outNodes' = layoutedNodes(inNodes, centers, RootId)
  /\ outEdges' = inEdges
  /\ pc' = "done"
  /\ UNCHANGED storeVars
  /\ UNCHANGED <<inNodes, inEdges, centers, anchors, mainIters, finalIters, moved>>
  /\ UNCHANGED appVars

LayoutNext ==
  \/ ReturnInput
  \/ Overflow
  \/ Place
  \/ Scale
  \/ MainPass
  \/ FinalPass
  \/ Return

LayoutSpec == LayoutInit /\ [][LayoutNext]_vars

\* ---------------------------------------------------------------------------
\* applyRadialLayout called again on what it returned
\* ---------------------------------------------------------------------------

MaxReruns == 1

\* the caller passes the returned nodes and edges to a new call, as applyLayout
\* does when the project it wrote the last result to is laid out again;
\* layoutVersion counts the results taken over
Rerun ==
  /\ pc = "done"
  /\ layoutVersion < MaxReruns
  /\ layoutVersion' = layoutVersion + 1
  /\ inNodes' = outNodes /\ inEdges' = outEdges
  /\ pc' = "call"
  /\ centers' = NoMap /\ anchors' = NoMap
  /\ mainIters' = 0 /\ finalIters' = 0 /\ moved' = 0
  /\ UNCHANGED <<outNodes, outEdges>>
  /\ UNCHANGED <<projects, activeProjectId, selectedNodeId, editingNodeId, connectMode,
                 connectSourceId, nodeCounter>>
  /\ UNCHANGED appVars

RerunNext ==
  \/ ReturnInput
  \/ Overflow
  \/ Place
  \/ Scale
  \/ MainPass
  \/ FinalPass
  \/ Return
  \/ Rerun

\* a root and a second parentless node, which no hierarchy edge reaches, at
\* places around the root
DriftInputs ==
  {[nodes |-> <<MkNode("r", "root", 0, NoSize, NoSize, Px(0), Px(0)),
               MkNode("a", t, 0, NoSize, NoSize, Px(x), Px(y))>>,
    edges |-> <<>>] :
     t \in {"task", "domain"},
     x \in {0 - 400, 0 - 300, 0 - 250, 0 - 200, 0 - 100, 0, 100, 174, 200, 250, 300},
     y \in {0 - 200, 0 - 100, 0 - 74, 0, 28, 74, 100, 150}}

\* two trees, the second lying on the root: the relaxation pushes its nodes
\* off and uses up its passes
PiledInputs ==
  {[nodes |-> <<MkNode("r", "root", 3, NoSize, NoSize, 0, 0),
               MkNode("a", "domain", 3, NoSize, NoSize, 0, 0),
               MkNode("b", "feature", 3, NoSize, NoSize, 0, 0),
               MkNode("c", "task", 3, NoSize, NoSize, 0, 0)>>,
    edges |-> <<MkEdge("r", "a", "hierarchy"), MkEdge("b", "c", "hierarchy")>>]}

RerunInit ==
  /\ StoreInit
  /\ AppInit
  /\ \E input \in LayoutInputs \cup DriftInputs \cup PiledInputs :
        inNodes = input.nodes /\ inEdges = input.edges
  /\ pc = "call"
  /\ centers = NoMap /\ anchors = NoMap
  /\ mainIters = 0 /\ finalIters = 0 /\ moved = 0
  /\ outNodes = <<>> /\ outEdges = <<>>

RerunSpec == RerunInit /\ [][RerunNext]_vars

\* ------------------------------------------------------------------------
\* The store as a state machine
\* ------------------------------------------------------------------------
MaxAdds == 1                      \* nodes addChildNode may create
MaxLayouts == 1                   \* applyLayout calls

\* a project whose domain has two measured features sitting where its next
\* child would go, a blocking edge and an edge without data
TestProject ==
  [id |-> "test", name |-> "Test",
   nodes |-> << MkNode("root", "root", 4, NoSize, NoSize, Px(-80), Px(-28)),
                MkNode("domain", "domain", 6, NoSize, NoSize, Px(120), Px(-25)),
                MkNode("f0", "feature", 2, Px(180), Px(70), Px(301), Px(-35)),
                MkNode("f1", "feature", 2, Px(180), Px(70), Px(293), Px(20)) >>,
   edges |-> << StoreEdge("e-root-domain", "root", "domain", "hierarchy"),
                StoreEdge("e-domain-f0", "domain", "f0", "hierarchy"),
                StoreEdge("e-domain-f1", "domain", "f1", "hierarchy"),
                StoreEdge("b1", "f0", "f1", "blocks"),
                StoreEdge("u1", "f1", "root", Undefined) >>]

\* a project file whose only domain is its own hierarchy child
LoopProject ==
  [id |-> "loop", name |-> "Loop",
   nodes |-> << MkNode("root", "root", 4, NoSize, NoSize, 0, 0),
                MkNode("d", "domain", 1, NoSize, NoSize, Px(200), 0) >>,
   edges |-> << StoreEdge("e-root-d", "root", "d", "hierarchy"),
                StoreEdge("e-d-d", "d", "d", "hierarchy") >>]

\* a project file in which every node is some node's hierarchy child
RingProject ==
  [id |-> "ring", name |-> "Ring",
   nodes |-> << MkNode("root", "root", 4, NoSize, NoSize, 0, 0),
                MkNode("d", "domain", 1, NoSize, NoSize, Px(200), 0) >>,
   edges |-> << StoreEdge("e-root-d", "root", "d", "hierarchy"),
                StoreEdge("e-d-root", "d", "root", "hierarchy") >>]

\* what the server may answer to the first fetch
ServerResponses == {<<TestProject>>, <<LoopProject>>, <<RingProject>>}

\* the connections the user may draw in blocking mode: source, target
BlockPairs == {<<"domain", "root">>}

\* the nodes whose "add child" button the user may press
AddParents == {"root", "domain"}

\* the layout engine between two calls
LayoutIdle(nextPc) ==
  /\ inNodes' = <<>> /\ inEdges' = <<>>
  /\ pc' = nextPc
  /\ centers' = NoMap /\ anchors' = NoMap
  /\ mainIters' = 0 /\ finalIters' = 0 /\ moved' = 0
  /\ outNodes' = <<>> /\ outEdges' = <<>>

Init ==
  /\ StoreInit
  /\ AppInit
  /\ inNodes = <<>> /\ inEdges = <<>>
  /\ pc = "idle"
  /\ centers = NoMap /\ anchors = NoMap
  /\ mainIters = 0 /\ finalIters = 0 /\ moved = 0
  /\ outNodes = <<>> /\ outEdges = <<>>

\* activeProject(): the first project whose id is activeProjectId
HasActive == \E i \in DOMAIN projects : projects[i].id = activeProjectId
ActiveProject ==
  projects[CHOOSE i \in DOMAIN projects :
             /\ projects[i].id = activeProjectId
             /\ \A j \in DOMAIN projects : projects[j].id = activeProjectId => i <= j]
ActiveNodes == IF HasActive THEN ActiveProject.nodes ELSE <<>>
ActiveEdges == IF HasActive THEN ActiveProject.edges ELSE <<>>

\* setProjects(projects), called once the server has answered
SetProjects(loaded) ==
  /\ pc = "idle"
  /\ projects = <<>>
  /\ projects' = loaded
  /\ activeProjectId' = IF activeProjectId = Null /\ Len(loaded) > 0
                        THEN loaded[1].id ELSE activeProjectId
  /\ UNCHANGED <<selectedNodeId, editingNodeId, layoutVersion, connectMode,
                 connectSourceId, nodeCounter>>
  /\ UNCHANGED layoutVars
  /\ UNCHANGED appVars

SetActiveProject(id) ==
  /\ pc = "idle"
  /\ activeProjectId' = id
  /\ selectedNodeId' = Null
  /\ editingNodeId' = Null
  /\ UNCHANGED <<projects, layoutVersion, connectMode, connectSourceId, nodeCounter>>
  /\ UNCHANGED layoutVars
  /\ UNCHANGED appVars

CreateProject(name) ==
  /\ pc = "idle"
  /\ projects' = Append(projects, newProject(name))
  /\ activeProjectId' = projectIdOf(name)
  /\ selectedNodeId' = Null
  /\ editingNodeId' = Null
  /\ UNCHANGED <<layoutVersion, connectMode, connectSourceId, nodeCounter>>
  /\ UNCHANGED layoutVars
  /\ UNCHANGED appVars

\* the set({...}) at the end of addChildNode
AppendChild(newId, parent, position) ==
  /\ selectedNodeId' = newId
  /\ editingNodeId' = newId
  /\ projects' = [i \in DOMAIN projects |->
                    IF projects[i].id = ActiveProject.id
                    THEN [projects[i] EXCEPT
                            !.nodes = Append(projects[i].nodes,
                                             newChildNode(newId, childTypeOf(parent.type),
                                                          position)),
                            !.edges = Append(projects[i].edges,
                                             StoreEdge("e-" \o parent.id \o "-" \o newId,
                                                       parent.id, newId, "hierarchy"))]
                    ELSE projects[i]]

\* addChildNode(parentId) for a parent the active project has; the new id is
\* node-<Date.now()>-<++nodeCounter>, of which the counter is kept
AddChildNode(parentId) ==
  /\ pc = "idle"
  /\ HasActive
  /\ hasNode(ActiveNodes, parentId)
  /\ nodeCounter' = nodeCounter + 1
  /\ \E position \in {spawnPosition(ActiveNodes, ActiveEdges, parentId)} :
       AppendChild("node-" \o ToString(nodeCounter + 1),
                   findNode(ActiveNodes, parentId), position)
  /\ UNCHANGED <<activeProjectId, layoutVersion, connectMode, connectSourceId>>
  /\ UNCHANGED layoutVars
  /\ UNCHANGED appVars

AddBlockingEdge(sourceId, targetId) ==
  /\ pc = "idle"
  /\ HasActive
  /\ sourceId # targetId
  /\ ~\E k \in DOMAIN ActiveEdges :
        /\ ActiveEdges[k].edgeType = "blocks"
        /\ ActiveEdges[k].source = sourceId
        /\ ActiveEdges[k].target = targetId
  /\ connectMode' = "off"
  /\ connectSourceId' = Null
  /\ projects' = [i \in DOMAIN projects |->
                    IF projects[i].id = ActiveProject.id
                    THEN [projects[i] EXCEPT !.edges =
                            Append(projects[i].edges,
                                   StoreEdge("e-blocks-" \o sourceId \o "-" \o targetId,
                                             sourceId, targetId, "blocks"))]
                    ELSE projects[i]]
  /\ UNCHANGED <<activeProjectId, selectedNodeId, editingNodeId, layoutVersion,
                 nodeCounter>>
  /\ UNCHANGED layoutVars
  /\ UNCHANGED appVars

\* the set({...}) at the end of deleteNode
RemoveNodes(idsToDelete) ==
  /\ selectedNodeId' = Null
  /\ editingNodeId' = Null
  /\ projects' = [i \in DOMAIN projects |->
                    IF projects[i].id = ActiveProject.id
                    THEN [projects[i] EXCEPT
                            !.nodes = SelectSeq(projects[i].nodes,
                                                LAMBDA n : n.id \notin idsToDelete),
                            !.edges = SelectSeq(projects[i].edges,
                                                LAMBDA e : /\ e.source \notin idsToDelete
                                                           /\ e.target \notin idsToDelete)]
                    ELSE projects[i]]

DeleteNode(nodeId) ==
  /\ pc = "idle"
  /\ HasActive
  /\ nodeId # Null
  /\ RemoveNodes(collect({nodeId}, ActiveEdges, {}))
  /\ UNCHANGED <<activeProjectId, layoutVersion, connectMode, connectSourceId,
                 nodeCounter>>
  /\ UNCHANGED layoutVars
  /\ UNCHANGED appVars

\* applyLayout up to the call of applyRadialLayout(project.nodes, project.edges),
\* which then runs step by step
ApplyLayout ==
  /\ pc = "idle"
  /\ HasActive
  /\ inNodes' = ActiveNodes /\ inEdges' = ActiveEdges
  /\ pc' = "call"
  /\ UNCHANGED <<centers, anchors, mainIters, finalIters, moved, outNodes, outEdges>>
  /\ UNCHANGED storeVars
  /\ UNCHANGED appVars

\* the set({...}) of applyLayout once applyRadialLayout has returned
LayoutApplied ==
  /\ pc = "done"
  /\ layoutVersion' = layoutVersion + 1
  /\ projects' = [i \in DOMAIN projects |->
                    IF projects[i].id = ActiveProject.id
                    THEN [projects[i] EXCEPT !.nodes = outNodes, !.edges = outEdges]
                    ELSE projects[i]]
  /\ LayoutIdle("idle")
  /\ UNCHANGED <<activeProjectId, selectedNodeId, editingNodeId, connectMode,
                 connectSourceId, nodeCounter>>
  /\ UNCHANGED appVars

\* applyRadialLayout threw: applyLayout sets nothing
LayoutThrew ==
  /\ pc = "fault"
  /\ LayoutIdle("idle")
  /\ UNCHANGED storeVars
  /\ UNCHANGED appVars

Next ==
  \/ \E loaded \in ServerResponses : SetProjects(loaded)
  \/ \E i \in DOMAIN projects : SetActiveProject(projects[i].id)
  \/ \E parentId \in AddParents : nodeCounter < MaxAdds /\ AddChildNode(parentId)
  \/ \E pair \in BlockPairs : AddBlockingEdge(pair[1], pair[2])
  \/ DeleteNode(selectedNodeId)
  \/ layoutVersion < MaxLayouts /\ ApplyLayout
  \/ ReturnInput
  \/ Overflow
  \/ Place
  \/ Scale
  \/ MainPass
  \/ FinalPass
  \/ Return
  \/ LayoutApplied
  \/ LayoutThrew

Spec == Init /\ [][Next]_vars

\* ------------------------------------------------------------------------
\* A created project grown by addChildNode alone
\* ------------------------------------------------------------------------
MaxFanAdds == 10                  \* nodes addChildNode may create

\* the name typed into the new-project box, as characters
FanName == <<"M", "i", "!">>

\* source of the hierarchy edge into a node, if any
ParentIdsOf(edges, id) ==
  {edges[k].source : k \in {j \in DOMAIN edges : IsHierarchy(edges[j]) /\ edges[j].target = id}}

\* where the next child may go: under the root of a fresh project, else under
\* the node just added or as another child of its parent
FanTargets ==
  IF selectedNodeId = Null
  THEN {ActiveNodes[i].id : i \in {j \in DOMAIN ActiveNodes : ActiveNodes[j].type = "root"}}
  ELSE {selectedNodeId} \cup ParentIdsOf(ActiveEdges, selectedNodeId)

FanNext ==
  \/ projects = <<>> /\ CreateProject(FanName)
  \/ \E parentId \in FanTargets : nodeCounter < MaxFanAdds /\ AddChildNode(parentId)

FanSpec == Init /\ [][FanNext]_vars

\* ------------------------------------------------------------------------
\* The store edited through its actions, without layout
\* ------------------------------------------------------------------------
MaxProjects == 2                  \* projects the store may hold
MaxEditAdds == 2                  \* nodes addChildNode may create

\* names typed into the new-project box, as characters
ProjectNames == {<<"M", "i", "!">>, <<"B">>}

\* a project whose only domain card measures 1400 x 1400 and covers every
\* place a child of the root could go
CrowdedProject ==
  [id |-> "crowded", name |-> "Crowded",
   nodes |-> << MkNode("root", "root", 4, NoSize, NoSize, Px(-80), Px(-28)),
                MkNode("big", "domain", 3, Px(1400), Px(1400), Px(-700), Px(-700)) >>,
   edges |-> << StoreEdge("e-root-big", "root", "big", "hierarchy") >>]

\* a project saved with a goal card under its root
GoalProject ==
  [id |-> "goals", name |-> "Goals",
   nodes |-> << MkNode("root", "root", 5, NoSize, NoSize, Px(-80), Px(-28)),
                MkNode("g1", "goal", 2, NoSize, NoSize, Px(150), Px(-200)) >>,
   edges |-> << StoreEdge("e-root-g1", "root", "g1", "hierarchy") >>]

EditResponses ==
  {<<TestProject>>, <<LoopProject>>, <<RingProject>>, <<CrowdedProject>>, <<GoalProject>>}

\* ids the user can point at, and one that no node has
EditTargets == {ActiveNodes[i].id : i \in DOMAIN ActiveNodes} \cup {Ghost}

EditNext ==
  \/ \E loaded \in EditResponses : SetProjects(loaded)
  \/ \E name \in ProjectNames : Len(projects) < MaxProjects /\ CreateProject(name)
  \/ \E i \in DOMAIN projects : SetActiveProject(projects[i].id)
  \/ \E parentId \in EditTargets : nodeCounter < MaxEditAdds /\ AddChildNode(parentId)
  \/ \E nodeId \in EditTargets : DeleteNode(nodeId)

EditSpec == Init /\ [][EditNext]_vars

\* ---------------------------------------------------------------------------
\* The App component: the store under its layout effect
\* ---------------------------------------------------------------------------

MaxAppAdds == 2
MaxAppLayouts == 4
AppName == <<"B">>

\* [activeProjectId, activeProject?.nodes.length], the effect's dependencies
EffectDepsNow ==
  [id |-> activeProjectId, len |-> IF HasActive THEN Len(ActiveNodes) ELSE NoLength]

\* React runs the effect after a render in which a dependency has changed
EffectDue == effectDeps # EffectDepsNow

\* useEffect(() => { if (activeProject && activeProject.nodes.length > 0)
\*   applyLayout() }, [activeProjectId, activeProject?.nodes.length, applyLayout])
LayoutEffect ==
  /\ pc = "idle"
  /\ EffectDue
  /\ effectDeps' = EffectDepsNow
  /\ IF HasActive /\ Len(ActiveNodes) > 0
     THEN /\ inNodes' = ActiveNodes /\ inEdges' = ActiveEdges
          /\ pc' = "call"
          /\ UNCHANGED <<centers, anchors, mainIters, finalIters, moved, outNodes, outEdges>>
     ELSE UNCHANGED layoutVars
  /\ UNCHANGED storeVars
  /\ UNCHANGED saveVars

\* what the user can do once the pending effect has run: create a project,
\* switch to one, add a child, delete a node, press rearrange
AppNext ==
  \/ LayoutEffect
  \/ ~EffectDue /\ projects = <<>> /\ CreateProject(AppName)
  \/ ~EffectDue /\ \E i \in DOMAIN projects : SetActiveProject(projects[i].id)
  \/ ~EffectDue /\ \E parentId \in FanTargets :
                     nodeCounter < MaxAppAdds /\ AddChildNode(parentId)
  \/ ~EffectDue /\ \E id \in FanTargets : DeleteNode(id)
  \/ ~EffectDue /\ layoutVersion < MaxAppLayouts /\ ApplyLayout
  \/ Place
  \/ Scale
  \/ MainPass
  \/ FinalPass
  \/ Return
  \/ LayoutApplied

AppSpec == Init /\ [][AppNext]_vars

\* ------------------------------------------------------------------------
\* Properties of applyRadialLayout (checked under LayoutSpec)
\* ------------------------------------------------------------------------
HierarchyEdges(edges) == SelectSeq(edges, IsHierarchy)

Parentless(nodes, edges) ==
  {i \in DOMAIN nodes :
     \A k \in DOMAIN edges : IsHierarchy(edges[k]) => edges[k].target # nodes[i].id}

\* the hierarchy edges form one rooted tree over the node list
IsRootedTree(nodes, edges) ==
  LET h == HierarchyEdges(edges)
      ids == NodeIds(nodes)
      adj == buildAdjacency(edges)
  IN  /\ nodes # <<>>
      /\ Cardinality(ids) = Len(nodes)
      /\ \A k \in DOMAIN h : h[k].source \in ids /\ h[k].target \in ids
      /\ Cardinality(Parentless(nodes, edges)) = 1
      /\ \A id \in ids : Cardinality({k \in DOMAIN h : h[k].target = id}) <= 1
      /\ DOMAIN buildDepthMap(findRoot(nodes, adj), adj) = ids

IsForest(nodes, edges) == Cardinality(Parentless(nodes, edges)) > 1

Returned == pc = "done"

\* centre of the i-th returned node, from its position and visual size
OutCenter(i) ==
  LET dims == visualNodeDims(outNodes[i])
  IN  P2(outNodes[i].position.x + RDiv(dims.w, 2),
         outNodes[i].position.y + RDiv(dims.h, 2))

\* the padded boxes of returned nodes i and j overlap
OutOverlap(i, j) ==
  LET da == visualNodeDims(outNodes[i])
      db == visualNodeDims(outNodes[j])
  IN  /\ Abs(OutCenter(j).x - OutCenter(i).x) < RDiv(da.w + db.w, 2) + Px(COLLISION_PAD_X)
      /\ Abs(OutCenter(j).y - OutCenter(i).y) < RDiv(da.h + db.h, 2) + Px(COLLISION_PAD_Y)

\* C1: after applyRadialLayout on a valid rooted tree whose relaxation ended
\* within its iteration budget (the finishing loop stopped on moved < 0.5),
\* every two nodes are at least (wA+wB)/2 + 14 apart in x or (hA+hB)/2 + 18
\* apart in y.
C1_NoOverlapAfterLayout ==
  (Returned /\ IsRootedTree(inNodes, inEdges) /\ moved < MOVED_EPSILON)
    => \A i, j \in DOMAIN outNodes : i < j => ~OutOverlap(i, j)

\* C3: applyRadialLayout never raises, whatever the hierarchy edges are
\* (self-loop, cycle among non-root nodes, node with two parents).
C3_NeverFaults == pc # "fault"

\* C4: the relaxer never moves the root: in every pass the root's centre is
\* its anchor, and the returned root is centred on the origin.
C4_RootNeverMoved ==
  /\ pc \in {"main", "final", "relaxed"} => centers[RootId] = anchors[RootId]
  /\ (Returned /\ centers # NoMap) =>
       /\ centers[RootId] = anchors[RootId]
       /\ \A i \in DOMAIN outNodes :
            outNodes[i].id = RootId => OutCenter(i) = P2(0, 0)

\* a full relaxation has run around a root whose centre was off the origin
C4_Witness ==
  /\ Returned /\ centers # NoMap
  /\ mainIters = COLLISION_ITERS
  /\ centers[RootId] # P2(0, 0)
  /\ \E i \in DOMAIN outNodes : outNodes[i].id = RootId /\ OutCenter(i) = P2(0, 0)

\* C5: the call returns the edge list it was given and, node for node in the
\* same order, the nodes it was given with nothing but `position` changed.
C5_OnlyPositionsChange ==
  Returned =>
    /\ outEdges = inEdges
    /\ Len(outNodes) = Len(inNodes)
    /\ \A i \in DOMAIN inNodes :
         outNodes[i] = [inNodes[i] EXCEPT !.position = outNodes[i].position]
    /\ [nodes |-> inNodes, edges |-> inEdges] \in LayoutInputs

\* a laid-out tree of long-labelled nodes whose positions did change
C5_Witness ==
  /\ Returned
  /\ Len(inNodes) >= 3
  /\ \A i \in DOMAIN inNodes : outNodes[i].position # inNodes[i].position
  /\ \E i \in DOMAIN inNodes : inNodes[i].labelLen = 40

AllHaveParent(nodes, edges) == nodes # <<>> /\ Parentless(nodes, edges) = {}

\* C7: with an empty node list, or when every node has an incoming hierarchy
\* edge, the call returns its arguments unchanged (and does nothing else).
C7_NoRootReturnsInput ==
  (inNodes = <<>> \/ AllHaveParent(inNodes, inEdges)) =>
    /\ pc \in {"call", "done"}
    /\ Returned => (outNodes = inNodes /\ outEdges = inEdges /\ centers = NoMap)

\* a cycle through every candidate for root was returned as it came
C7_Witness ==
  /\ Returned
  /\ AllHaveParent(inNodes, inEdges)
  /\ Len(inNodes) >= 2
  /\ outNodes = inNodes

\* C8 (as claimed): on a forest the call is a no-op, every position is kept.
C8_ForestIsNoOp ==
  (Returned /\ IsForest(inNodes, inEdges)) =>
    \A i \in DOMAIN inNodes : outNodes[i].position = inNodes[i].position

\* C8 (amended): on a forest the call is not a no-op: the first parentless
\* node in list order is taken as the root, the layout runs, and that node is
\* returned centred on the origin.
C8_ForestUsesFirstParentless ==
  IsForest(inNodes, inEdges) =>
    LET first == CHOOSE i \in Parentless(inNodes, inEdges) :
                   \A j \in Parentless(inNodes, inEdges) : i <= j
    IN  /\ RootId = inNodes[first].id
        /\ Returned => /\ centers # NoMap
                       /\ finalIters >= 1
                       /\ OutCenter(first) = P2(0, 0)

\* a forest was laid out and a node moved
C8_Witness ==
  /\ Returned /\ IsForest(inNodes, inEdges)
  /\ \E i \in DOMAIN inNodes : outNodes[i].position # inNodes[i].position

\* hierarchy edges with an endpoint that is in no node
Dangling(e) ==
  IsHierarchy(e) /\ (e.source \notin NodeIds(inNodes) \/ e.target \notin NodeIds(inNodes))
NotDangling(e) == ~Dangling(e)

\* C9: a hierarchy edge with a missing endpoint is skipped: the call
\* completes and returns what it returns for the input without that edge.
C9_DanglingEdgeSkipped ==
  (pc \in {"done", "fault"} /\ \E k \in DOMAIN inEdges : Dangling(inEdges[k])) =>
    /\ Returned
    /\ outNodes = applyRadialLayout(inNodes, SelectSeq(inEdges, NotDangling)).nodes

\* C10: right after the global scaling step every node is within the target
\* radius of the root; the step scales every non-root centre (and anchor) by
\* target / actual when the largest distance exceeded the target and changes
\* nothing otherwise.
C10_ScaledWithinTarget ==
  [][pc = "placed" =>
       LET rootKids == Len(AdjGet(buildAdjacency(inEdges), RootId))
           target == targetMaxRadius(Len(inNodes), rootKids)
           actual == currentMaxRadius(centers, RootId)
           root == centers[RootId]
       IN  /\ \A id \in DOMAIN centers' :
                Hypot(centers'[id].x - centers'[RootId].x,
                      centers'[id].y - centers'[RootId].y) <= target
           /\ centers'[RootId] = root
           /\ anchors' = centers'
           /\ actual <= target => centers' = centers
           /\ actual > target =>
                \A id \in DOMAIN centers \ {RootId} :
                  /\ centers'[id].x = root.x + MulDiv(centers[id].x - root.x, target, actual)
                  /\ centers'[id].y = root.y + MulDiv(centers[id].y - root.y, target, actual)
     ]_vars

\* a four-node chain was scaled down: its far end sits on the target radius
C10_Witness ==
  /\ pc = "main" /\ mainIters = 0
  /\ Len(inNodes) = 4
  /\ IsRootedTree(inNodes, inEdges)
  /\ currentMaxRadius(centers, RootId) = targetMaxRadius(4, 1)

\* ------------------------------------------------------------------------
\* Properties of the store (checked under Spec)
\* ------------------------------------------------------------------------
\* this step is an addChildNode that appended a node
AddedChild == nodeCounter' = nodeCounter + 1
NewChild == ActiveNodes'[Len(ActiveNodes')]
NewParentId == ActiveEdges'[Len(ActiveEdges')].source

\* the nodes whose rectangle is closer than placementPad to the rectangle
\* of `node`
Violations(node, nodes) ==
  {i \in DOMAIN nodes :
     rectClearance(existingRectsOf(<<node>>)[1], existingRectsOf(nodes)[i])
       < Px(placementPad)}

\* some candidate of the 7 x 13 search grid keeps placementPad from every node
GridHasClear(pl) ==
  \E k \in DOMAIN candidateScales, m \in DOMAIN candidateOffsets :
    isClear(candidateAt(pl, k, m))

\* C2: when some candidate of the search grid (13 angle offsets x 7
\* distances around the preferred angle) keeps a clearance of at least 14
\* from every existing node's rectangle, the position addChildNode gives the
\* new node has no clearance violation against any existing node.
C2_ClearWhenAvoidable ==
  [][AddedChild =>
       (GridHasClear(placementFor(ActiveNodes, ActiveEdges, NewParentId))
          => Violations(NewChild, ActiveNodes) = {})]_vars

\* a child was just added under a parent whose first candidate (preferred
\* angle, base distance) was blocked while the grid held a clear one, and it
\* sits clear of every node that was there
C2_Witness ==
  /\ pc = "idle" /\ HasActive
  /\ Len(ActiveNodes) >= 2 /\ ActiveEdges # <<>>
  /\ selectedNodeId = ActiveNodes[Len(ActiveNodes)].id
  /\ ActiveEdges[Len(ActiveEdges)].target = selectedNodeId
  /\ LET before == SubSeq(ActiveNodes, 1, Len(ActiveNodes) - 1)
         pl == placementFor(before, SubSeq(ActiveEdges, 1, Len(ActiveEdges) - 1),
                            ActiveEdges[Len(ActiveEdges)].source)
     IN  /\ ~isClear(candidateAt(pl, 1, 1))
         /\ GridHasClear(pl)
         /\ Violations(ActiveNodes[Len(ActiveNodes)], before) = {}

\* the edges layout may read
LayoutEdges == SelectSeq(inEdges, IsHierarchy)
LayoutRoot == findRoot(inNodes, buildAdjacency(LayoutEdges))
LayoutCtx == relaxContext(inNodes, LayoutEdges, LayoutRoot)

\* C6: layout is blind to edges that are not hierarchy edges (blocks edges,
\* edges without an edge type): every step of applyRadialLayout, and so the
\* positions it returns, is what the same step yields on the input with
\* those edges removed, and addChildNode places the new child where it
\* places it with those edges removed.  Two inputs that differ only in such
\* edges therefore get identical positions.
C6_BlindToOtherEdges ==
  [][/\ (pc = "call" /\ pc' = "done") => LayoutRoot \in {Undefined, ""}
     /\ (pc = "call" /\ pc' = "fault") =>
          /\ LayoutRoot \notin {Undefined, ""}
          /\ radialPass(inNodes, LayoutEdges, LayoutRoot).fault
     /\ (pc = "call" /\ pc' = "placed") =>
          /\ LayoutRoot \notin {Undefined, ""}
          /\ centers' = initialCenters(inNodes,
                                       radialPass(inNodes, LayoutEdges, LayoutRoot).entries)
     /\ (pc = "placed" /\ pc' = "main") =>
          centers' = globalScale(centers, LayoutRoot, Len(inNodes),
                                 Len(AdjGet(buildAdjacency(LayoutEdges), LayoutRoot)))
     /\ (pc = "main" /\ pc' \in {"main", "final"}) =>
          centers' = mainPass(centers, anchors, LayoutCtx).centers
     /\ (pc = "final" /\ pc' \in {"final", "relaxed"}) =>
          centers' = finalPass(centers, anchors, LayoutCtx).centers
     /\ (pc = "relaxed" /\ pc' = "done") =>
          outNodes' = layoutedNodes(inNodes, centers, LayoutRoot)
     /\ AddedChild =>
          NewChild.position = spawnPosition(ActiveNodes, SelectSeq(ActiveEdges, IsHierarchy),
                                            NewParentId)
    ]_vars

\* a project holding a blocking edge into its root and an edge without a
\* type has been laid out, its nodes moved, and a child has been added
C6_Witness ==
  /\ pc = "idle" /\ HasActive
  /\ layoutVersion > 0 /\ nodeCounter > 0
  /\ \E k \in DOMAIN ActiveEdges :
       ActiveEdges[k].edgeType = "blocks" /\ ActiveEdges[k].target = "root"
  /\ \E k \in DOMAIN ActiveEdges : ActiveEdges[k].edgeType = Undefined
  /\ \E i \in DOMAIN ActiveNodes :
       ActiveNodes[i].id = "domain" /\ ActiveNodes[i].position # P2(Px(120), Px(-25))

\* ------------------------------------------------------------------------
\* Properties of the radial placer (checked under LayoutSpec)
\* ------------------------------------------------------------------------
\* the rings laid out by the call in progress
PlacedRings == IF pc = "placed" THEN radialRings(inNodes, inEdges, RootId) ELSE {}

\* usableSweep of a ring: the sweep less the gaps, floored at 70% of the sweep
UsableSweepOf(ring) ==
  Max2(ring.sweep - ring.plan.gapAngle * (Len(ring.children) - 1),
       MulDiv(ring.sweep, 7, 10))

GapsOf(ring) == ring.plan.gapAngle * (Len(ring.children) - 1)

\* one rounding step of 1/Q per child
SweepTolerance(ring) == Len(ring.children)

\* C11 as stated: for every parent placed by the radial placer, the sweeps
\* allotted to its children plus the gaps between them add up to the
\* parent's usable sweep.
C11_SweepsAndGapsFillUsable ==
  \A ring \in PlacedRings :
    Abs(SumSeq(ring.plan.childSweeps) + GapsOf(ring) - UsableSweepOf(ring))
      <= SweepTolerance(ring)

\* C11 amended: for every parent placed by the radial placer, the sweeps
\* allotted to its children add up to the parent's usable sweep; the gaps
\* between siblings come on top of it.
C11_SweepsFillUsable ==
  \A ring \in PlacedRings :
    Abs(SumSeq(ring.plan.childSweeps) - UsableSweepOf(ring)) <= SweepTolerance(ring)

\* a parent with several children has been placed whose floors together exceed
\* the usable sweep, and still the sweeps add up to the usable sweep
C11_Witness ==
  \E ring \in PlacedRings :
    /\ Len(ring.children) >= 2
    /\ GapsOf(ring) > SweepTolerance(ring)
    /\ SumSeq(ring.plan.minSweeps) > UsableSweepOf(ring) + SweepTolerance(ring)
    /\ Abs(SumSeq(ring.plan.childSweeps) - UsableSweepOf(ring)) <= SweepTolerance(ring)

\* ------------------------------------------------------------------------
\* Properties of addChildNode on a created project (checked under FanSpec)
\* ------------------------------------------------------------------------
ChildIdsOf(edges, id) ==
  {edges[k].target : k \in {j \in DOMAIN edges : IsHierarchy(edges[j]) /\ edges[j].source = id}}

\* the project is a chain from the root down to `parentId` and, below it,
\* children that have no children themselves
IsChainAndFan(nodes, edges, parentId) ==
  /\ ChildIdsOf(edges, parentId) # {}
  /\ \A c \in ChildIdsOf(edges, parentId) : ChildIdsOf(edges, c) = {}
  /\ \A i \in DOMAIN nodes :
       nodes[i].id # parentId => Cardinality(ChildIdsOf(edges, nodes[i].id)) <= 1

\* overlaps(a, b, pad) of the store's tests: the rectangles grown by pad on
\* every side intersect
overlaps(a, b, pad) ==
  /\ a.x - pad < b.x + b.w + pad
  /\ a.x + a.w + pad > b.x - pad
  /\ a.y - pad < b.y + b.h + pad
  /\ a.y + a.h + pad > b.y - pad

FanPad == 4

\* C12: after up to seven addChildNode calls under one parent that had no
\* children, in a project holding only the root and the chain down to that
\* parent, no two of the added children overlap when each rectangle is grown
\* by 4 on every side.
C12_FanChildrenApart ==
  \A p \in DOMAIN ActiveNodes :
    (/\ IsChainAndFan(ActiveNodes, ActiveEdges, ActiveNodes[p].id)
     /\ Cardinality(ChildIdsOf(ActiveEdges, ActiveNodes[p].id)) <= 7)
    => \A i, j \in DOMAIN ActiveNodes :
         (/\ i < j
          /\ {ActiveNodes[i].id, ActiveNodes[j].id}
               \subseteq ChildIdsOf(ActiveEdges, ActiveNodes[p].id))
         => ~overlaps(existingRectsOf(ActiveNodes)[i], existingRectsOf(ActiveNodes)[j],
                      Px(FanPad))

\* seven children have been added under a feature that sits below the root
\* and a domain
C12_Witness ==
  \E p \in DOMAIN ActiveNodes :
    /\ ActiveNodes[p].type = "feature"
    /\ IsChainAndFan(ActiveNodes, ActiveEdges, ActiveNodes[p].id)
    /\ Cardinality(ChildIdsOf(ActiveEdges, ActiveNodes[p].id)) = 7
    /\ Len(ActiveNodes) = 10

\* ------------------------------------------------------------------------
\* Properties of the store's edits (checked under EditSpec)
\* ------------------------------------------------------------------------
\* index of the project activeProject() returns
ActiveIndex ==
  CHOOSE i \in DOMAIN projects :
    /\ projects[i].id = activeProjectId
    /\ \A j \in DOMAIN projects : projects[j].id = activeProjectId => i <= j

\* what an addChildNode step does to the active project and the selection
AddChildEffect ==
  /\ HasActive /\ hasNode(ActiveNodes, NewParentId)
  /\ ActiveNodes' = Append(ActiveNodes, NewChild)
  /\ ~hasNode(ActiveNodes, NewChild.id)
  /\ Len(ActiveEdges') = Len(ActiveEdges) + 1
  /\ SubSeq(ActiveEdges', 1, Len(ActiveEdges)) = ActiveEdges
  /\ ActiveEdges'[Len(ActiveEdges')].target = NewChild.id
  /\ ActiveEdges'[Len(ActiveEdges')].edgeType = "hierarchy"
  /\ selectedNodeId' = NewChild.id /\ editingNodeId' = NewChild.id
  /\ UNCHANGED <<activeProjectId, layoutVersion, connectMode, connectSourceId>>
  /\ Len(projects') = Len(projects)
  /\ projects'[ActiveIndex].id = projects[ActiveIndex].id
  /\ projects'[ActiveIndex].name = projects[ActiveIndex].name

\* C13: addChildNode(parentId) with a parent the active project has appends
\* one node and one hierarchy edge from the parent to it, selects and edits
\* the new node, and leaves every existing node and edge and every other
\* project as they were; without an active project or with an unknown parent
\* nothing is added.
C13_AddChildFrame ==
  [][AddedChild =>
       /\ AddChildEffect
       /\ \A i \in DOMAIN projects : i # ActiveIndex => projects'[i] = projects[i]]_vars

\* the values addChildNode's search read in this step
StepPlacement == placementFor(ActiveNodes, ActiveEdges, NewParentId)

\* C14: when no candidate of the search grid is free of clearance
\* violations, addChildNode places the new child at the preferred angle at
\* the base distance from its parent.
C14_FallbackWhenCrowded ==
  [][(AddedChild /\ ~GridHasClear(StepPlacement)) =>
       NewChild.position = placementCorner(StepPlacement, NoPlacement)]_vars

\* the child type the data model gives each parent type
MappedChildType(parentType) ==
  CASE parentType = "root"    -> "domain"
    [] parentType = "domain"  -> "feature"
    [] parentType = "feature" -> "task"
    [] OTHER                  -> "task"

\* ids of the projects made by createProject
CreatedIds == {projectIdOf(name) : name \in ProjectNames}

TypeOfNode(nodes, id) == findNode(nodes, id).type

\* C18: addChildNode gives the new node the type its parent's type fixes
\* (root -> domain, domain -> feature, feature -> task, task -> task, any
\* other -> task) and the status "pending" exactly when that type is feature
\* or task; so in a project made by createProject and grown by addChildNode
\* every hierarchy edge joins a parent type to its mapped child type.
C18_ChildTypeByParent ==
  /\ [][AddedChild =>
          /\ NewChild.type = MappedChildType(TypeOfNode(ActiveNodes, NewParentId))
          /\ ("status" \in DOMAIN NewChild) <=> (NewChild.type \in {"feature", "task"})
          /\ ("status" \in DOMAIN NewChild) => NewChild.status = "pending"]_vars
  /\ [](\A i \in DOMAIN projects :
          projects[i].id \in CreatedIds =>
            \A k \in DOMAIN projects[i].edges :
              LET e == projects[i].edges[k]
              IN  (/\ IsHierarchy(e)
                   /\ hasNode(projects[i].nodes, e.source)
                   /\ hasNode(projects[i].nodes, e.target))
                  => TypeOfNode(projects[i].nodes, e.target)
                       = MappedChildType(TypeOfNode(projects[i].nodes, e.source)))

\* a task with status "pending" has just been added under a goal card
C18_Witness ==
  /\ HasActive /\ Len(ActiveNodes) >= 2 /\ ActiveEdges # <<>>
  /\ LET child == ActiveNodes[Len(ActiveNodes)]
         edge == ActiveEdges[Len(ActiveEdges)]
     IN  /\ selectedNodeId = child.id /\ edge.target = child.id
         /\ TypeOfNode(ActiveNodes, edge.source) = "goal"
         /\ child.type = "task" /\ "status" \in DOMAIN child /\ child.status = "pending"

RECURSIVE ReachableIn(_, _, _)
\* ids reachable from `ids` along at most n hierarchy edges
ReachableIn(edges, ids, n) ==
  IF n = 0 THEN ids
  ELSE ReachableIn(edges, ids \cup UNION {ChildIdsOf(edges, id) : id \in ids}, n - 1)

\* this step removed nodes from the active project
RemovedNodes ==
  /\ HasActive /\ activeProjectId' = activeProjectId
  /\ Len(projects') = Len(projects)
  /\ Len(ActiveNodes') < Len(ActiveNodes)

\* C19: deleteNode(nodeId) removes the node and every node reachable from it
\* through hierarchy edges, removes every edge, hierarchy or blocks, with an
\* endpoint among them, sets selectedNodeId and editingNodeId to null and
\* leaves the project's other nodes and edges as they were; it ends also
\* when hierarchy edges form a cycle.
C19_DeleteRemovesSubtree ==
  [][RemovedNodes =>
       \E i \in DOMAIN ActiveNodes :
         LET gone == ReachableIn(ActiveEdges, {ActiveNodes[i].id}, Len(ActiveEdges))
         IN  /\ ActiveNodes' = SelectSeq(ActiveNodes, LAMBDA n : n.id \notin gone)
             /\ ActiveEdges' = SelectSeq(ActiveEdges,
                                         LAMBDA e : e.source \notin gone /\ e.target \notin gone)
             /\ selectedNodeId' = Null /\ editingNodeId' = Null
             /\ UNCHANGED <<activeProjectId, layoutVersion, connectMode, connectSourceId,
                            nodeCounter>>]_vars

\* the project whose two nodes are each other's hierarchy parent has been
\* emptied by one deleteNode
C19_Witness ==
  /\ HasActive /\ activeProjectId = RingProject.id
  /\ ActiveNodes = <<>> /\ ActiveEdges = <<>>
  /\ selectedNodeId = Null /\ editingNodeId = Null

\* ---------------------------------------------------------------------------
\* Properties of the App's layout effect (checked under AppSpec)
\* ---------------------------------------------------------------------------

\* the effect starts a full layout in this step
EffectStartsLayout == pc = "idle" /\ pc' = "call" /\ effectDeps' # effectDeps

\* C20: an "add child" request results in incremental placement only: a full
\* layout is started by the rearrange request (applyLayout called directly) or
\* by the effect when another project has become active, never by the effect
\* because addChildNode changed the number of nodes of the active project
C20_AddChildWithoutLayout ==
  [][EffectStartsLayout => effectDeps.id # activeProjectId]_vars


\* ---------------------------------------------------------------------------
\* Properties of a second call on the first call's result (checked under
\* RerunSpec)
\* ---------------------------------------------------------------------------

\* the boxes of nodes i and j of a node list intersect
BoxesOverlap(nodes, i, j) ==
  LET da == visualNodeDims(nodes[i])
      db == visualNodeDims(nodes[j])
  IN  /\ nodes[i].position.x < nodes[j].position.x + db.w
      /\ nodes[j].position.x < nodes[i].position.x + da.w
      /\ nodes[i].position.y < nodes[j].position.y + db.h
      /\ nodes[j].position.y < nodes[i].position.y + da.h

OverlappingPairs(nodes) ==
  Cardinality({pr \in (DOMAIN nodes) \X (DOMAIN nodes) :
                 pr[1] < pr[2] /\ BoxesOverlap(nodes, pr[1], pr[2])})

\* this step returns from a call whose input was the previous call's result
SecondReturn ==
  /\ layoutVersion >= 1
  /\ pc \in {"call", "relaxed"}
  /\ pc' = "done"

AllReachable(nodes, edges) ==
  /\ nodes # <<>>
  /\ findRoot(nodes, buildAdjacency(edges)) # Undefined
  /\ NodeIds(nodes) \subseteq
       DOMAIN buildDepthMap(findRoot(nodes, buildAdjacency(edges)), buildAdjacency(edges))

DepthOfInput == buildDepthMap(RootId, buildAdjacency(inEdges))

\* indices of the returned nodes two or more levels below the root
DeepNodes ==
  {i \in DOMAIN outNodes :
     /\ outNodes[i].id \in DOMAIN DepthOfInput
     /\ DepthOfInput[outNodes[i].id] >= 2}

\* distance from the point c to the nearest point of the i-th returned box
BoxDistance(c, i) ==
  LET dims == visualNodeDims(outNodes[i])
      dx == Max2(Abs(OutCenter(i).x - c.x) - RDiv(dims.w, 2), 0)
      dy == Max2(Abs(OutCenter(i).y - c.y) - RDiv(dims.h, 2), 0)
  IN  Hypot(dx, dy)

RootIndex == CHOOSE i \in DOMAIN outNodes : outNodes[i].id = RootId

\* radius of the circle of the test "keeps depth-2+ cards out of the root inner
\* core"
CoreCircleRadius == 58

\* C16: in the output no node at depth 2 or more has a box that intersects the
\* circle of radius 58 around the root's centre
C16_DeepBoxesOutsideCircle ==
  (Returned /\ RootId # Undefined /\ RootId # "")
    => \A i \in DeepNodes :
         BoxDistance(OutCenter(RootIndex), i) >= Px(CoreCircleRadius)

\* C16, amended: in the output no node at depth 2 or more has a box that comes
\* inside the circle of radius INNER_CORE_RADIUS (52) around the root's centre
C16_DeepBoxesOutsideCore ==
  (Returned /\ RootId # Undefined /\ RootId # "")
    => \A i \in DeepNodes :
         BoxDistance(OutCenter(RootIndex), i) >= Px(INNER_CORE_RADIUS)

\* a returned node at depth 2 or more whose box ends outside the inner core
\* and inside the circle of radius 58
C16_Witness ==
  /\ Returned /\ RootId # Undefined /\ RootId # ""
  /\ \E i \in DeepNodes :
        /\ BoxDistance(OutCenter(RootIndex), i) >= Px(INNER_CORE_RADIUS)
        /\ BoxDistance(OutCenter(RootIndex), i) < Px(CoreCircleRadius)

\* ------------------------------------------------------------------------
\* Properties of the sweep floors (checked under LayoutSpec)
\* ------------------------------------------------------------------------
\* the child of a ring at position i was allotted at least its floor, one
\* rounding step of 1/Q per child allowed
AtLeastFloor(ring, i) ==
  ring.plan.childSweeps[i] + SweepTolerance(ring) >= ring.plan.minSweeps[i]

\* the floors of a ring together fit into its usable sweep
FloorsFit(ring) == SumSeq(ring.plan.minSweeps) <= UsableSweepOf(ring)

\* C21 as stated: for every parent placed by the radial placer, every child's
\* allotted sweep is at least its angular floor (1.08 times the angle its
\* padded width spans on the ring), whatever the children and the sweep.
C21_SweepAtLeastFloor ==
  \A ring \in PlacedRings : \A i \in DOMAIN ring.children : AtLeastFloor(ring, i)

\* C21 amended: for every parent whose children's floors together do not
\* exceed the usable sweep, every child's allotted sweep is at least its
\* angular floor.
C21_SweepAtLeastFloorWhenFit ==
  \A ring \in PlacedRings :
    FloorsFit(ring) => \A i \in DOMAIN ring.children : AtLeastFloor(ring, i)

\* a parent has been placed whose floors fit, one of whose children wanted
\* less than its floor, and that child was allotted its floor
C21_Witness ==
  \E ring \in PlacedRings :
    /\ FloorsFit(ring)
    /\ \E i \in DOMAIN ring.children :
         /\ ring.plan.desiredSweeps[i] + SweepTolerance(ring) < ring.plan.minSweeps[i]
         /\ AtLeastFloor(ring, i)

\* ------------------------------------------------------------------------
\* Properties of the branch outward floor (checked under LayoutSpec)
\* ------------------------------------------------------------------------
\* rounding allowed on a distance: a twentieth of a pixel
RadiusTolerance == U \div 20

\* index of the returned node with the given id
OutIndex(id) == CHOOSE i \in DOMAIN outNodes : outNodes[i].id = id

\* distance of the i-th returned node's centre from the root's centre
OutRadius(i) ==
  Hypot(OutCenter(i).x - OutCenter(RootIndex).x, OutCenter(i).y - OutCenter(RootIndex).y)

\* the hierarchy parent of every node of the call's input
InputParents == buildParentMap(inEdges)

\* the i-th returned node is at least its type's outward gap farther from the
\* root than its hierarchy parent
OutwardOfParent(i) ==
  OutRadius(i) + RadiusTolerance
    >= OutRadius(OutIndex(InputParents[outNodes[i].id])) + CHILD_OUTWARD_GAP(outNodes[i].type)

\* C22: in the output of applyRadialLayout on a valid tree, every non-root
\* node lies farther from the root's centre than its hierarchy parent by at
\* least the outward gap of its type, whatever the order of the node list.
C22_ChildOutwardOfParent ==
  (Returned /\ IsRootedTree(inNodes, inEdges))
    => \A i \in DOMAIN outNodes : outNodes[i].id # RootId => OutwardOfParent(i)

\* ------------------------------------------------------------------------
\* Properties of the anchor shell (checked under LayoutSpec)
\* ------------------------------------------------------------------------
\* the relaxation context with only the first k ids of the node list
FirstIds(k) == [RelaxCtx EXCEPT !.ids = SubSeq(RelaxCtx.ids, 1, k)]

\* the centers of the pass about to run once its pairwise sweep is done and
\* the first k nodes of the list have been clamped
ClampedUpTo(k) ==
  IF pc = "main"
  THEN springAndClamp(pairSweep(centers, 0, 1, 2, RelaxCtx).centers, anchors, 1, FirstIds(k))
  ELSE clampAll(pairSweep(centers, 0, 1, 2, RelaxCtx).centers, anchors, 1, FirstIds(k))

\* the nodes the pass about to run clamps, by position in the list
ClampedNodes ==
  IF pc \notin {"main", "final"} THEN {}
  ELSE {k \in DOMAIN RelaxCtx.ids :
          /\ RelaxCtx.ids[k] # RootId
          /\ RelaxCtx.ids[k] \in DOMAIN centers
          /\ RelaxCtx.ids[k] \in DOMAIN RelaxCtx.nodeMap}

\* outward drift allowance of the pass about to run
DriftAllowance ==
  IF pc = "main" THEN Px(MAX_RADIAL_DRIFT) ELSE Px(MAX_RADIAL_DRIFT) + Px(28)

\* distance of a node from the root's centre
RadiusIn(c, id) == Hypot(c[id].x - c[RootId].x, c[id].y - c[RootId].y)

\* the parent's radius plus the outward gap of the node's type
BranchFloorIn(c, id) ==
  IF id \in DOMAIN RelaxCtx.parentById /\ RelaxCtx.parentById[id] \in DOMAIN c
  THEN RadiusIn(c, RelaxCtx.parentById[id]) + CHILD_OUTWARD_GAP(RelaxCtx.nodeMap[id].type)
  ELSE 0

\* for a node at depth 2 or more: the core radius, the depth step and the
\* node's half extent along its direction from the root
CoreFloorIn(c, id) ==
  IF id \in DOMAIN RelaxCtx.depthById /\ RelaxCtx.depthById[id] >= 2
  THEN Px(INNER_CORE_RADIUS) + (RelaxCtx.depthById[id] - 2) * Px(INNER_CORE_DEPTH_STEP)
       + radialHalfExtent(c[id].x - c[RootId].x, c[id].y - c[RootId].y, RadiusIn(c, id),
                          RelaxCtx.visualDimsMap[id])
  ELSE 0

\* max(anchor radius - 52, branch outward floor, inner core floor)
InnerBound(c, id) ==
  Max3(RadiusIn(anchors, id) - Px(MIN_RADIAL_DRIFT), BranchFloorIn(c, id), CoreFloorIn(c, id))

\* anchor radius plus the outward drift allowance
OuterBound(id) == RadiusIn(anchors, id) + DriftAllowance

\* the node clamped k-th is neither at the root's centre nor inside its
\* inner bound once it has been clamped
OutsideInnerBound(k) ==
  RadiusIn(ClampedUpTo(k), RelaxCtx.ids[k]) + RadiusTolerance
    >= InnerBound(ClampedUpTo(k), RelaxCtx.ids[k])

\* C23 as stated: after every shell clamp of a non-root node its distance
\* from the root's centre is at most its anchor radius plus the outward drift
\* allowance and at least max(anchor radius - 52, branch outward floor, inner
\* core floor).
C23_ClampedIntoShell ==
  \A k \in ClampedNodes :
    RadiusIn(ClampedUpTo(k), RelaxCtx.ids[k]) > 0
      => /\ OutsideInnerBound(k)
         /\ RadiusIn(ClampedUpTo(k), RelaxCtx.ids[k])
              <= OuterBound(RelaxCtx.ids[k]) + RadiusTolerance

\* C23 amended: after every shell clamp of a non-root node its distance from
\* the root's centre is at least max(anchor radius - 52, branch outward floor,
\* inner core floor) and at most the larger of anchor radius plus the outward
\* drift allowance and that inner bound plus 18.
C23_ClampedIntoWidenedShell ==
  \A k \in ClampedNodes :
    RadiusIn(ClampedUpTo(k), RelaxCtx.ids[k]) > 0
      => /\ OutsideInnerBound(k)
         /\ RadiusIn(ClampedUpTo(k), RelaxCtx.ids[k])
              <= Max2(OuterBound(RelaxCtx.ids[k]),
                      InnerBound(ClampedUpTo(k), RelaxCtx.ids[k]) + Px(18))
                 + RadiusTolerance

\* a finishing pass is about to clamp a node that its pairwise sweep left
\* inside its inner bound, and another that ends beyond its anchor radius
\* plus the drift allowance
C23_Witness ==
  /\ pc = "final"
  /\ \E k \in ClampedNodes :
       /\ RadiusIn(ClampedUpTo(k - 1), RelaxCtx.ids[k]) + RadiusTolerance
            < InnerBound(ClampedUpTo(k - 1), RelaxCtx.ids[k])
       /\ OutsideInnerBound(k)
  /\ \E k \in ClampedNodes :
       RadiusIn(ClampedUpTo(k), RelaxCtx.ids[k])
         > OuterBound(RelaxCtx.ids[k]) + RadiusTolerance

\* ------------------------------------------------------------------------
\* Properties of the relaxation loops' exits (checked under LayoutSpec)
\* ------------------------------------------------------------------------
\* the step is the last pass of the main loop, of the finishing loop
MainLoopEnds == pc = "main" /\ pc' = "final"
FinalLoopEnds == pc = "final" /\ pc' = "relaxed"

\* the step is a pass after which its loop goes on
LoopGoesOn == (pc = "main" /\ pc' = "main") \/ (pc = "final" /\ pc' = "final")

\* the step ends a loop before its iteration cap
LoopEndsEarly ==
  \/ MainLoopEnds /\ mainIters' < COLLISION_ITERS
  \/ FinalLoopEnds /\ finalIters' < FINAL_ITERS

\* how far the nodes are, in sum, from where they were before the step
Displacement ==
  SumSeq([k \in DOMAIN RelaxCtx.ids |->
            IF RelaxCtx.ids[k] \in DOMAIN centers
            THEN Hypot(centers'[RelaxCtx.ids[k]].x - centers[RelaxCtx.ids[k]].x,
                       centers'[RelaxCtx.ids[k]].y - centers[RelaxCtx.ids[k]].y)
            ELSE 0])

\* neither loop has run more passes than its cap
WithinCaps == mainIters <= COLLISION_ITERS /\ finalIters <= FINAL_ITERS

\* C24 as stated: a relaxation loop ends before its iteration cap only after
\* a pass in which the total positional movement of the nodes was below 0.5;
\* otherwise it runs to its cap, and it never runs more passes than the caps.
C24_EarlyExitOnlyWhenStill ==
  [][/\ LoopEndsEarly => Displacement < MOVED_EPSILON
     /\ (MainLoopEnds \/ FinalLoopEnds) /\ ~LoopEndsEarly => WithinCaps']_vars

\* C24 amended: a relaxation loop ends before its iteration cap only after a
\* pass whose pair pushes resolved a summed overlap (the pass's moved) below
\* 0.5; after any other pass it goes on until its cap, 72 main passes and
\* then 24 finishing passes, and it never runs more passes than the caps.
C24_EarlyExitOnlyWhenMovedSmall ==
  [][/\ LoopEndsEarly => moved' < MOVED_EPSILON
     /\ LoopGoesOn => moved' >= MOVED_EPSILON /\ WithinCaps'
     /\ (MainLoopEnds \/ FinalLoopEnds) => WithinCaps'
     /\ (pc \in {"main", "final"} /\ moved' >= MOVED_EPSILON /\ ~LoopGoesOn)
          => (MainLoopEnds /\ mainIters' = COLLISION_ITERS)
             \/ (FinalLoopEnds /\ finalIters' = FINAL_ITERS)]_vars

\* a call has returned whose main loop ran its 72 passes and whose finishing
\* loop ended on its own after more than one pass
C24_Witness ==
  /\ Returned
  /\ mainIters = COLLISION_ITERS
  /\ finalIters > 1 /\ finalIters < FINAL_ITERS
  /\ moved < MOVED_EPSILON

\* ------------------------------------------------------------------------
\* Properties of addChildNode's candidate search (checked under FanSpec)
\* ------------------------------------------------------------------------
\* every candidate of the search grid with its distance index k, its offset
\* index m and its score
GridCandidates(pl) ==
  UNION {{[k |-> km[1], m |-> km[2], c |-> c, score |-> candidateScore(c)] :
            c \in {candidateAt(pl, km[1], km[2])}} :
           km \in (DOMAIN candidateScales) \X (DOMAIN candidateOffsets)}

ZeroViolation(grid) == {g \in grid : g.c.overlapCount = 0}

\* the nearest distance that offers a zero-violation candidate, the farthest
\* distance if none does
StopRing(grid) ==
  IF ZeroViolation(grid) = {} THEN Len(candidateScales)
  ELSE CHOOSE k \in DOMAIN candidateScales :
         /\ \E g \in ZeroViolation(grid) : g.k = k
         /\ \A g \in ZeroViolation(grid) : g.k >= k

\* g is evaluated before h: distances nearest first, offsets in list order
EvaluatedBefore(g, h) == g.k < h.k \/ (g.k = h.k /\ g.m < h.m)

\* the lowest-scoring of the candidates tried, the first of them on a tie
LowestOf(tried) ==
  CHOOSE g \in tried :
    \A h \in tried :
      \/ g.score < h.score
      \/ g.score = h.score /\ EvaluatedBefore(g, h)
      \/ (g.k = h.k /\ g.m = h.m)

\* the candidates at the distances up to the stop ring
TriedOf(grid, stop) == {g \in grid : g.k <= stop}

\* the new child of the step sits at the pick, which is at the stop ring and
\* has zero violations if any candidate of the grid has
PlacedAtPick(position, grid, stop, pick) ==
  /\ position = P2(pick.c.x, pick.c.y)
  /\ ZeroViolation(grid) # {} => pick.k = stop /\ pick.c.overlapCount = 0

\* the search over placement pl ended at the position given: the lowest score
\* among the candidates up to the nearest distance with a zero-violation one
SearchPicks(pl, position) ==
  \E grid \in {GridCandidates(pl)} :
    \E stop \in {StopRing(grid)} :
      \E pick \in {LowestOf(TriedOf(grid, stop))} :
        PlacedAtPick(position, grid, stop, pick)

InputDemand == layoutContext(inNodes, inEdges).demand
InputLayoutDims == layoutContext(inNodes, inEdges).layoutDims

\* own layout width plus NODE_PAD
SelfDemand(id) == InputLayoutDims[id].w + Px(NODE_PAD)

\* the children of a node, in edge order
InputKids(id) == AdjGet(buildAdjacency(inEdges), id)

\* the sum of the demands of a node's children
KidsDemand(id) == SumSeq([i \in DOMAIN InputKids(id) |-> InputDemand[InputKids(id)[i]]])

\* C26: for every node of a tree the computed demand is max(own layout width
\* + 18, sum of the demands of its children), which for a childless node is
\* its own layout width + 18; so no parent's demand is below the sum of its
\* children's demands.
C26_DemandIsMaxOfSelfAndKids ==
  (pc = "placed" /\ IsRootedTree(inNodes, inEdges))
    => \A id \in NodeIds(inNodes) :
         /\ id \in DOMAIN InputDemand
         /\ InputDemand[id] = Max2(SelfDemand(id), KidsDemand(id))
         /\ InputKids(id) = <<>> => InputDemand[id] = SelfDemand(id)
         /\ InputDemand[id] >= KidsDemand(id)

\* a tree has been placed in which one parent of two or more children takes
\* its demand from their sum and another parent from its own width
C26_Witness ==
  /\ pc = "placed" /\ IsRootedTree(inNodes, inEdges)
  /\ \E id \in NodeIds(inNodes) :
       /\ Len(InputKids(id)) >= 2
       /\ KidsDemand(id) > SelfDemand(id)
       /\ InputDemand[id] = KidsDemand(id)
  /\ \E id \in NodeIds(inNodes) :
       /\ InputKids(id) # <<>>
       /\ KidsDemand(id) < SelfDemand(id)
       /\ InputDemand[id] = SelfDemand(id)

\* ------------------------------------------------------------------------
\* Projects made and edited through the store alone: createProject,
\* addChildNode, addBlockingEdge, deleteNode of a node other than a root,
\* applyLayout
\* ------------------------------------------------------------------------
MaxTreeProjects == 2              \* projects createProject may make
MaxTreeAdds == 2                  \* nodes addChildNode may create
MaxTreeLayouts == 1               \* times rearrange may be pressed

ActiveIdsOfType(isRoot) ==
  {ActiveNodes[i].id : i \in {j \in DOMAIN ActiveNodes : (ActiveNodes[j].type = "root") = isRoot}}

\* the blocking links the user may draw: from a node under the root to the root
TreeBlockPairs == ActiveIdsOfType(FALSE) \X ActiveIdsOfType(TRUE)

TreeNext ==
  \/ \E name \in ProjectNames : Len(projects) < MaxTreeProjects /\ CreateProject(name)
  \/ \E parentId \in ActiveIdsOfType(TRUE) \cup ActiveIdsOfType(FALSE) :
       nodeCounter < MaxTreeAdds /\ AddChildNode(parentId)
  \/ \E pair \in TreeBlockPairs : AddBlockingEdge(pair[1], pair[2])
  \/ \E nodeId \in ActiveIdsOfType(FALSE) : DeleteNode(nodeId)
  \/ layoutVersion < MaxTreeLayouts /\ ApplyLayout
  \/ Place
  \/ Scale
  \/ MainPass
  \/ FinalPass
  \/ Return
  \/ LayoutApplied

TreeSpec == Init /\ [][TreeNext]_vars

\* C27: after any sequence of createProject, addChildNode, addBlockingEdge,
\* applyLayout and deleteNode of non-root nodes, the hierarchy edges of every
\* project form one rooted tree: one node without a hierarchy parent, one
\* parent for every other node, no cycle, node ids pairwise distinct.
C27_HierarchyIsRootedTree ==
  \A i \in DOMAIN projects : IsRootedTree(projects[i].nodes, projects[i].edges)

\* C29: after any sequence of createProject calls the projects of the store
\* have pairwise distinct ids.
C29_ProjectIdsDistinct ==
  \A i, j \in DOMAIN projects : i # j => projects[i].id # projects[j].id

\* ------------------------------------------------------------------------
\* The canvas: clicks, the link button, the delete key and the delete button
\* ------------------------------------------------------------------------
MaxCanvasAdds == 2                \* nodes addChildNode may create
MaxLinks == 2                     \* blocking edges a project may hold

\* setSelectedNode: (id) => set({ selectedNodeId: id })
SetSelectedNode(id) ==
  /\ selectedNodeId' = id
  /\ UNCHANGED <<projects, activeProjectId, editingNodeId, layoutVersion, connectMode,
                 connectSourceId, nodeCounter>>

\* setConnectMode: (mode) => set({ connectMode: mode, connectSourceId: null })
SetConnectMode(mode) ==
  /\ connectMode' = mode
  /\ connectSourceId' = Null
  /\ UNCHANGED <<projects, activeProjectId, selectedNodeId, editingNodeId, layoutVersion,
                 nodeCounter>>

\* setConnectSource: (id) => set({ connectSourceId: id })
SetConnectSource(id) ==
  /\ connectSourceId' = id
  /\ UNCHANGED <<projects, activeProjectId, selectedNodeId, editingNodeId, layoutVersion,
                 connectMode, nodeCounter>>

BlockingCount == Cardinality({k \in DOMAIN ActiveEdges : ActiveEdges[k].edgeType = "blocks"})

\* Canvas.onNodeClick on a node the canvas shows
OnNodeClick(id) ==
  /\ pc = "idle"
  /\ HasActive
  /\ hasNode(ActiveNodes, id)
  /\ IF connectMode = "blocking"
     THEN IF connectSourceId = Null
          THEN SetConnectSource(id) /\ UNCHANGED layoutVars /\ UNCHANGED appVars
          ELSE BlockingCount < MaxLinks /\ AddBlockingEdge(connectSourceId, id)
     ELSE SetSelectedNode(id) /\ UNCHANGED layoutVars /\ UNCHANGED appVars

\* Canvas.onPaneClick
OnPaneClick ==
  /\ pc = "idle"
  /\ IF connectMode = "blocking"
     THEN SetConnectMode("off")
     ELSE /\ selectedNodeId' = Null
          /\ editingNodeId' = Null
          /\ UNCHANGED <<projects, activeProjectId, layoutVersion, connectMode,
                         connectSourceId, nodeCounter>>
  /\ UNCHANGED layoutVars
  /\ UNCHANGED appVars

\* the sidebar's "Link blocker" / "Cancel linking" button
ToggleLinking ==
  /\ pc = "idle"
  /\ SetConnectMode(IF connectMode = "blocking" THEN "off" ELSE "blocking")
  /\ UNCHANGED layoutVars
  /\ UNCHANGED appVars

\* the Backspace / Delete branch of the canvas' keydown handler; a node with
\* descendants is deleted once window.confirm has been answered with yes
KeyDelete ==
  /\ selectedNodeId # Null
  /\ editingNodeId = Null
  /\ hasNode(ActiveNodes, selectedNodeId)
  /\ findNode(ActiveNodes, selectedNodeId).type # "root"
  /\ DeleteNode(selectedNodeId)

\* NodeDetail.handleDelete; the panel shows the button for a selected node
\* other than the root
PanelDelete ==
  /\ selectedNodeId # Null
  /\ hasNode(ActiveNodes, selectedNodeId)
  /\ findNode(ActiveNodes, selectedNodeId).type # "root"
  /\ DeleteNode(selectedNodeId)

CanvasNext ==
  \/ projects = <<>> /\ CreateProject(AppName)
  \/ \E id \in NodeIds(ActiveNodes) : OnNodeClick(id)
  \/ OnPaneClick
  \/ ToggleLinking
  \/ \E parentId \in NodeIds(ActiveNodes) :
       nodeCounter < MaxCanvasAdds /\ AddChildNode(parentId)
  \/ KeyDelete
  \/ PanelDelete

CanvasSpec == Init /\ [][CanvasNext]_vars

\* C28: after any interleaving of node clicks, link-button presses, pane
\* clicks, addChildNode and keyboard or panel deletes, every edge of a project
\* has its source and its target in the project's node list.
C28_EdgeEndpointsExist ==
  \A i \in DOMAIN projects :
    \A k \in DOMAIN projects[i].edges :
      /\ projects[i].edges[k].source \in NodeIds(projects[i].nodes)
      /\ projects[i].edges[k].target \in NodeIds(projects[i].nodes)

\* ------------------------------------------------------------------------
\* Saving: useDebouncedSave under the store, the timer and the server
\* ------------------------------------------------------------------------
MaxSaveProjects == 2              \* projects createProject may make
MaxSaveAdds == 2                  \* nodes addChildNode may create

\* useActiveProject(): the active project, if there is one
ProjectNow == IF HasActive THEN <<ActiveProject>> ELSE <<>>

\* React runs the effect after a render in which `project` has changed
SaveEffectDue == saveDeps # ProjectNow

\* setSaveStatus: (status, error = null) => set({ saveStatus: status, ... })
SetSaveStatus(status) == saveStatus' = status

\* the effect of useDebouncedSave: the cleanup of its last run, which clears
\* the pending timer, and then its body. Two projects are compared as their
\* JSON.stringify texts are: by id, name, nodes and edges.
SaveEffect ==
  /\ pc = "idle"
  /\ SaveEffectDue
  /\ saveDeps' = ProjectNow
  /\ IF ProjectNow = <<>>
     THEN /\ currentProjectIdRef' = Null
          /\ timeoutRef' = <<>>
          /\ UNCHANGED <<saveStatus, prevRef>>
     ELSE IF currentProjectIdRef # ActiveProject.id
     THEN /\ currentProjectIdRef' = ActiveProject.id
          /\ prevRef' = ProjectNow
          /\ SetSaveStatus("saved")
          /\ timeoutRef' = <<>>
     ELSE IF ProjectNow = prevRef
     THEN /\ timeoutRef' = <<>>
          /\ UNCHANGED <<saveStatus, prevRef, currentProjectIdRef>>
     ELSE /\ prevRef' = ProjectNow
          /\ SetSaveStatus("dirty")
          /\ timeoutRef' = ProjectNow
          /\ UNCHANGED currentProjectIdRef
  /\ UNCHANGED <<inFlight, sent, effectDeps>>
  /\ UNCHANGED storeVars
  /\ UNCHANGED layoutVars

\* saveProject(project) up to its fetch: the PUT of the project to
\* /api/projects/<id>
PutProject(project) ==
  /\ sent' = {p \in sent : p.id # project.id} \cup {project}
  /\ inFlight' = inFlight + 1

\* the timer's callback 1200 ms after the last edit, up to its await
TimerFires ==
  /\ pc = "idle"
  /\ ~SaveEffectDue
  /\ timeoutRef # <<>>
  /\ SetSaveStatus("saving")
  /\ PutProject(timeoutRef[1])
  /\ timeoutRef' = <<>>
  /\ UNCHANGED <<saveDeps, prevRef, currentProjectIdRef, effectDeps>>
  /\ UNCHANGED storeVars
  /\ UNCHANGED layoutVars

\* the rest of the callback once the server has answered: res.ok or not
SaveSettled(ok) ==
  /\ pc = "idle"
  /\ ~SaveEffectDue
  /\ inFlight > 0
  /\ inFlight' = inFlight - 1
  /\ SetSaveStatus(IF ok THEN "saved" ELSE "error")
  /\ UNCHANGED <<saveDeps, prevRef, currentProjectIdRef, timeoutRef, sent, effectDeps>>
  /\ UNCHANGED storeVars
  /\ UNCHANGED layoutVars

SaveNext ==
  \/ SaveEffect
  \/ TimerFires
  \/ \E ok \in BOOLEAN : SaveSettled(ok)
  \/ ~SaveEffectDue /\ \E name \in ProjectNames :
                         Len(projects) < MaxSaveProjects /\ CreateProject(name)
  \/ ~SaveEffectDue /\ \E i \in DOMAIN projects : SetActiveProject(projects[i].id)
  \/ ~SaveEffectDue /\ \E parentId \in NodeIds(ActiveNodes) :
                         nodeCounter < MaxSaveAdds /\ AddChildNode(parentId)

SaveSpec == Init /\ [][SaveNext]_vars

\* C30: whenever saveStatus is "saved" (and the save effect has run for the
\* last render), every project in memory is the content last sent to the
\* server for it.
C30_SavedMeansSent ==
  (saveStatus = "saved" /\ ~SaveEffectDue) => \A i \in DOMAIN projects : projects[i] \in sent

====
